---- MODULE Spec2Model ----
(***************************************************************************)
(* A state-machine model of the search core of the pig chess engine:       *)
(* the negamax driver findBestMove / alphaBeta / quiescence of             *)
(* src/src/search.hpp (lines 686-1469), the earlier driver of the same     *)
(* file (lines 528-685) and the lower/upper-bound-table version of         *)
(* src/src/search.cpp.                                                     *)
(*                                                                         *)
(* The chess library (Board, Move, movegen) and the static evaluator are   *)
(* external.  A position is modelled by the path of moves that leads to it *)
(* from the root (makeMove appends the move, unmakeMove removes it, token  *)
(* 0 is the null move), so the hash of a position is the path itself; a    *)
(* game is a finite table that gives, for each position, its legal moves,  *)
(* its game-over result, its static evaluation (from White's side), and    *)
(* whether the side to move is in check / the position is an end game.     *)
(***************************************************************************)
EXTENDS Integers, Sequences, FiniteSets, TLC

(***************************************************************************)
(* Program constants.                                                      *)
(***************************************************************************)
INF == 100000
maxTableSize == 10000000
ENGINE_DEPTH == 30
checkExtension == 1
mateThreat == 1
promotionExtension == 1
oneReplyExtension == 1
nullDepth == 4
baseDepth == 1
InitialWindow == 50
InitialExtension == 4
StableMargin == 25

\* pieceValues[static_cast<int>(type)], 1-based here.
pieceValues == <<0, 100, 320, 330, 500, 900, 20000>>

PieceValue(k) == pieceValues[k + 1]

(***************************************************************************)
(* Bounds of the model.                                                    *)
(***************************************************************************)
MaxDepthBound == 4
MaxQDepth == 1
MaxThreads == 2
Headroom == 2
MaxMoves == 23
MaxBoundDepth == 5
MaxWrites == 2
MaxStoreDepth == 1
MaxCalls == 2
MaxCommands == 3
MaxExchange == 2

Max(a, b) == IF a >= b THEN a ELSE b
Abs(a) == IF a >= 0 THEN a ELSE -a
Front(s) == SubSeq(s, 1, Len(s) - 1)

(***************************************************************************)
(* Moves.  id stands for the from/to/type encoding that Move::operator==   *)
(* compares; the other fields are what the search asks the board about the *)
(* move: isCapture, the pieceValues indices of victim and attacker, queen  *)
(* promotion, mateThreatMove / promotionThreatMove evaluated before the    *)
(* move is made (mt, pt) and mateThreatMove evaluated after it is made     *)
(* (mtPost: the board then has the opponent to move); for a quiet move att  *)
(* is the type of the piece moved and threat the number of squares         *)
(* quietPriority counts as attacked from the target square.                *)
(***************************************************************************)
NoMove == 0

Mv(id, cap, vic, att, qp, mt, pt, mtPost) ==
    [id |-> id, cap |-> cap, vic |-> vic, att |-> att, qp |-> qp,
     mt |-> mt, pt |-> pt, mtPost |-> mtPost, threat |-> 0]

Quiet(id) == Mv(id, FALSE, 0, 0, FALSE, FALSE, FALSE, FALSE)
Capture(id, vic, att) == Mv(id, TRUE, vic, att, FALSE, FALSE, FALSE, FALSE)
Threat(id) == Mv(id, FALSE, 0, 0, FALSE, TRUE, FALSE, FALSE)

Nd(mv, over, ev, chk, eg) ==
    [mv |-> mv, over |-> over, ev |-> ev, chk |-> chk, eg |-> eg]

(***************************************************************************)
(* State.                                                                  *)
(*   arg                 the arguments of the findBestMove call and the    *)
(*                       game it is called on                              *)
(*   board               the caller's Board                                *)
(*   otherEntries        how many entries transpositionTable holds for     *)
(*                       positions that cannot occur in this game (left by *)
(*                       earlier calls; the table is a global)             *)
(*   transpositionTable, hashMoveTable, killerMoves, nodeCount,            *)
(*   previousPV, globalMaxDepth, mopUp     the globals of search.hpp       *)
(*   fb                  the locals of findBestMove that the root workers  *)
(*                       share (and its position, fb.pc); fb.taken are the *)
(*                       loop indices already started, fb.fullBest the     *)
(*                       best moves of the iterations in which every root  *)
(*                       move was searched (history)                       *)
(*   wk                  per worker thread: its call stack (the root-loop  *)
(*                       body, alphaBeta and quiescence frames), its       *)
(*                       localBoard and the value last returned to it      *)
(*   clock               what the wall clock says: 0 within the time       *)
(*                       limit, 1 beyond it, 2 beyond twice the limit      *)
(*   obs                 the last return of alphaBeta / quiescence and the *)
(*                       last transposition write (history variable)       *)
(*   mates               the checkmates met in the current iteration       *)
(*                       (history variable)                                *)
(*   lowerBoundTable, upperBoundTable, whiteHistory, blackHistory          *)
(*                       the globals of search.cpp and of the earlier      *)
(*                       version in search.hpp; a history cell is named by *)
(*                       the move id (its from/to squares)                 *)
(*   probe               the last call of transTableLookUp made on the     *)
(*                       store alone, and its result                       *)
(*   written             the writes made to the store alone, oldest first  *)
(*   inside              per thread: the access to shared data it is in    *)
(*                       the middle of, or NoAccess                        *)
(*   uci                 the protocol layer of pig_engine.cpp: its global  *)
(*                       board (the position set up and the moves made on  *)
(*                       it), what it has written to std::cout, whether    *)
(*                       uciLoop is still reading, and the line last read  *)
(*                       with the move findBestMove last returned          *)
(*                       (history); uci.n counts the lines read            *)
(*   fb.calls counts the calls of findBestMove made so far.                *)
(***************************************************************************)
VARIABLES arg, board, otherEntries, transpositionTable, hashMoveTable,
          killerMoves, nodeCount, previousPV, globalMaxDepth, mopUp, fb, wk,
          clock, obs, mates,
          lowerBoundTable, upperBoundTable, whiteHistory, blackHistory,
          probe, written, inside, uci

\* The globals that only the lower/upper-bound-table versions have.
boundVars == <<lowerBoundTable, upperBoundTable, whiteHistory, blackHistory>>

\* The last table lookup and the table writes so far (history variables);
\* the access to shared data each thread is in the middle of; the protocol
\* layer.
sideVars == <<probe, written, inside, uci>>

vars == <<arg, board, otherEntries, transpositionTable, hashMoveTable,
          killerMoves, nodeCount, previousPV, globalMaxDepth, mopUp, fb, wk,
          clock, obs, mates, boundVars, sideVars>>

(***************************************************************************)
(* The game (external collaborators: chess.hpp, evaluation.hpp).           *)
(***************************************************************************)
W == arg.world

Node(p) == IF p \in DOMAIN W.nodes THEN W.nodes[p] ELSE W.dflt

SideToMove(p) ==
    IF Len(p) % 2 = 0 THEN W.side ELSE IF W.side = "W" THEN "B" ELSE "W"

Evaluate(p) == Node(p).ev

LegalMoves(p) == Node(p).mv

IsGameOver(p) == Node(p).over

InCheck(p) == Node(p).chk

GamePhaseLow(p) == Node(p).eg

MakeMove(b, m) == Append(b, m.id)

UnmakeMove(b, m) == Front(b)

MakeNullMove(b) == Append(b, 0)

UnmakeNullMove(b) == Front(b)

\* board.hash(): equal for the move orders that W.same lists as reaching
\* the same position (the second order is keyed as the first).
Hash(b) ==
    IF \E k \in 1..Len(b) : SubSeq(b, 1, k) \in DOMAIN W.same
    THEN LET k == CHOOSE j \in 1..Len(b) : SubSeq(b, 1, j) \in DOMAIN W.same
         IN  W.same[SubSeq(b, 1, k)] \o SubSeq(b, k + 1, Len(b))
    ELSE b

(***************************************************************************)
(* std::sort with a "greater" comparison on the key.  The lists sorted     *)
(* here have fewer than 16 elements, for which std::sort is an insertion   *)
(* sort: elements with equal keys keep their order.                        *)
(***************************************************************************)
\* A std::pair<Move, int>.
Pair(move, second) == [move |-> move, second |-> second]

RECURSIVE InsertDesc(_, _)
InsertDesc(x, s) ==
    IF s = <<>> THEN <<x>>
    ELSE IF x.second > Head(s).second THEN <<x>> \o s
    ELSE <<Head(s)>> \o InsertDesc(x, Tail(s))

RECURSIVE SortDescFrom(_, _)
SortDescFrom(done, rest) ==
    IF rest = <<>> THEN done
    ELSE SortDescFrom(InsertDesc(Head(rest), done), Tail(rest))

\* Variant: the list is left in its order of arrival.
SortSkipped(s) == s

SortDesc(s) == SortDescFrom(<<>>, s)

(***************************************************************************)
(* Transposition table lookup (negamax version): the global table.         *)
(* found / eval are the returned bool and the int& out-parameter, which is *)
(* left alone on a miss.                                                   *)
(***************************************************************************)
transTableLookUp(hash, depth) ==
    LET found == hash \in DOMAIN transpositionTable
                 /\ transpositionTable[hash].depth >= depth
    IN  [found |-> found,
         eval |-> IF found THEN transpositionTable[hash].eval ELSE 0]

\* Variant: an entry searched deeper is kept.
TableStoreDeeper(table, hash, eval, depth) ==
    [h \in DOMAIN table \cup {hash} |->
        IF h = hash /\ (h \notin DOMAIN table \/ table[h].depth <= depth)
        THEN [eval |-> eval, depth |-> depth] ELSE table[h]]

\* table[hash] = {eval, depth}: insert or replace.
TableStore(table, hash, eval, depth) ==
    [h \in DOMAIN table \cup {hash} |->
        IF h = hash THEN [eval |-> eval, depth |-> depth] ELSE table[h]]

\* hashMoveTable[hash] = move.
HashMoveStore(table, hash, move) ==
    [h \in DOMAIN table \cup {hash} |-> IF h = hash THEN move ELSE table[h]]

\* killerMoves[depth]; a slot never written is an empty vector.
KillersAt(depth) ==
    IF depth \in DOMAIN killerMoves THEN killerMoves[depth] ELSE <<>>

updateKillerMoves(move, depth) ==
    LET k == KillersAt(depth)
        k2 == IF Len(k) < 2 THEN Append(k, move.id) ELSE <<move.id, k[1]>>
    IN  [d \in DOMAIN killerMoves \cup {depth} |->
            IF d = depth THEN k2 ELSE killerMoves[d]]

isQueenPromotion(move) == move.qp

(***************************************************************************)
(* Late move reduction: the depth at which move number i (from 0) is       *)
(* searched.                                                               *)
(***************************************************************************)
lateMoveReduction(b, move, i, depth, isPV) ==
    LET isCheck == InCheck(MakeMove(b, move))
        isCapture == move.cap
        inCheck == InCheck(b)
        isPromoting == isQueenPromotion(move)
        isMateThreat == move.mt
        isPromotionThreat == move.pt
        noReduceCondition ==
            mopUp \/ isPromoting \/ isMateThreat \/ isPromotionThreat
        reduceLessCondition == isCheck \/ inCheck \/ isCapture
        k1 == IF isPV THEN 2 ELSE 1
        k2 == IF isPV THEN 5 ELSE 3
    IN  IF i <= k1 \/ depth <= 3 \/ noReduceCondition THEN depth - 1
        ELSE IF i <= k2 \/ reduceLessCondition THEN depth - 2
        ELSE depth - 3

(***************************************************************************)
(* The extension rule, as written in alphaBeta and in the root loop:       *)
(* whether it applies, and the plies it adds.                              *)
(***************************************************************************)
ExtensionFlag(isCheck, isMateThreat, isPromotionThreat, extension) ==
    (isCheck \/ isMateThreat \/ isPromotionThreat) /\ extension > 0

ExtensionPlies(isCheck, isMateThreat, isPromotionThreat, isOneReply) ==
    LET n1 == IF isCheck THEN Max(checkExtension, 0) ELSE 0
        n2 == IF isMateThreat THEN Max(mateThreat, n1) ELSE n1
        n3 == IF isPromotionThreat THEN Max(promotionExtension, n2) ELSE n2
    IN  IF isOneReply /\ ~isCheck THEN Max(oneReplyExtension, n3) ELSE n3

(***************************************************************************)
(* Move ordering.  Each legal move gets the priority of the first branch   *)
(* of the if/else-if chain that applies; quiet moves go to the back in     *)
(* generator order.                                                        *)
(***************************************************************************)
MoveClass(b, move, depth, prevPV, leftMost) ==
    LET hash == Hash(b)
        ply == globalMaxDepth - depth
        isHashMove == hash \in DOMAIN hashMoveTable
                      /\ hashMoveTable[hash] = move.id
        \* previousPV.size() > ply compares as size_t: a negative ply is huge
        pvHint == ply >= 0 /\ Len(prevPV) > ply /\ leftMost
        isKiller == \E k \in 1..Len(KillersAt(depth)) :
                        KillersAt(depth)[k] = move.id
    IN  IF isHashMove THEN [quiet |-> FALSE, priority |-> 9000]
        ELSE IF pvHint
        THEN [quiet |-> FALSE,
              priority |-> IF prevPV[ply + 1] = move.id THEN 10000 ELSE 0]
        ELSE IF isKiller THEN [quiet |-> FALSE, priority |-> 2000]
        ELSE IF isQueenPromotion(move) THEN [quiet |-> FALSE, priority |-> 6000]
        ELSE IF move.cap
        THEN [quiet |-> FALSE,
              priority |-> 4000 + PieceValue(move.vic) - PieceValue(move.att)]
        ELSE IF InCheck(MakeMove(b, move))
        THEN [quiet |-> FALSE, priority |-> 3000]
        ELSE [quiet |-> TRUE, priority |-> 0]

IsQuietEntry(c) == c.quiet

IsTacticalEntry(c) == ~c.quiet

orderedMoves(b, depth, prevPV, leftMost) ==
    LET moves == LegalMoves(b)
        all == [k \in 1..Len(moves) |->
                  [move |-> moves[k],
                   second |-> MoveClass(b, moves[k], depth, prevPV, leftMost).priority,
                   quiet |-> MoveClass(b, moves[k], depth, prevPV, leftMost).quiet]]
        strip(s) == [k \in 1..Len(s) |-> Pair(s[k].move, s[k].second)]
        candidates == SortDesc(strip(SelectSeq(all, IsTacticalEntry)))
        quietCandidates == strip(SelectSeq(all, IsQuietEntry))
    IN  candidates \o quietCandidates

\* The capture list of quiescence, sorted by victim value - attacker value.
QuiescenceCandidates(b) ==
    LET IsCaptureMove(m) == m.cap
        moves == SelectSeq(LegalMoves(b), IsCaptureMove)
    IN  SortDesc([k \in 1..Len(moves) |->
            Pair(moves[k], PieceValue(moves[k].vic) - PieceValue(moves[k].att))])

(***************************************************************************)
(* Call frames.  One record shape serves the three functions; the fields   *)
(* carry the parameters and locals of the source under their names.  entry *)
(* keeps the arguments and the board of the call as they were on entry.    *)
(***************************************************************************)
BlankFrame ==
    [fn |-> "none", pc |-> "none", kind |-> "none",
     depth |-> 0, alpha |-> 0, beta |-> 0, leftMost |-> FALSE, extension |-> 0,
     PV |-> <<>>, moves |-> <<>>, i |-> 0, move |-> Quiet(NoMove),
     nextDepth |-> 0, eval |-> 0, bestEval |-> 0, childPV |-> <<>>,
     isPV |-> FALSE, standPat |-> 0, bestScore |-> 0,
     aspiration |-> 0, windowLeft |-> 0, windowRight |-> 0,
     newBestFlag |-> FALSE, cell |-> 0,
     entry |-> [depth |-> 0, extension |-> 0, alpha |-> 0, beta |-> 0,
                board |-> <<>>]]

AbFrame(b, depth, alpha, beta, PV, leftMost, extension) ==
    [BlankFrame EXCEPT !.fn = "ab", !.pc = "start", !.depth = depth,
        !.alpha = alpha, !.beta = beta, !.PV = PV, !.leftMost = leftMost,
        !.extension = extension,
        !.entry = [depth |-> depth, extension |-> extension, alpha |-> alpha,
                   beta |-> beta, board |-> b]]

QFrame(b, depth, alpha, beta) ==
    [BlankFrame EXCEPT !.fn = "q", !.pc = "start", !.depth = depth,
        !.alpha = alpha, !.beta = beta,
        !.entry = [depth |-> depth, extension |-> 0, alpha |-> alpha,
                   beta |-> beta, board |-> b]]

Workers == 1..arg.numThreads

Top(w) == wk[w].stack[Len(wk[w].stack)]

At(w, fn, pc) ==
    /\ wk[w].stack # <<>>
    /\ Top(w).fn = fn
    /\ Top(w).pc = pc

\* The worker after its top frame became f and its board b.
Cont(w, f, b) ==
    [wk[w] EXCEPT !.stack = Front(wk[w].stack) \o <<f>>, !.localBoard = b]

\* The worker after its top frame became f, its board b, and it called g.
Call(w, f, b, g) ==
    [wk[w] EXCEPT !.stack = Front(wk[w].stack) \o <<f, g>>, !.localBoard = b]

\* The worker after its top frame returned val (and left PV to its caller).
Return(w, b, val, PV) ==
    [wk[w] EXCEPT !.stack = Front(wk[w].stack), !.localBoard = b,
                  !.ret = [val |-> val, PV |-> PV]]

Obs(fn, kind, f, b, val) ==
    [fn |-> fn, kind |-> kind, val |-> val, depth |-> f.depth,
     alpha |-> f.alpha, beta |-> f.beta, pos |-> b,
     side |-> SideToMove(b), entry |-> f.entry]

Color(b) == IF SideToMove(b) = "W" THEN 1 ELSE -1

(***************************************************************************)
(* alphaBeta (negamax version).                                            *)
(***************************************************************************)
\* The value returned for a game that is over.
GameOverValue(b, depth) ==
    IF IsGameOver(b) = "CHECKMATE"
    THEN Color(b) * ((INF \div 2) - (1000 - depth))
    ELSE 0

\* What quiescence(board, depth, alpha, beta) returns, as a function of its
\* arguments.
RECURSIVE QuiescenceValue(_, _, _, _)
QuiescenceValue(b, depth, alpha, beta) ==
    LET standPat == Color(b) * Evaluate(b)
        moves == QuiescenceCandidates(b)
        RECURSIVE Loop(_, _, _)
        Loop(i, a, bestScore) ==
            IF i > Len(moves) THEN bestScore
            ELSE LET score == -QuiescenceValue(MakeMove(b, moves[i].move),
                                               depth - 1, -beta, -a)
                 IN  IF Max(a, score) >= beta THEN beta
                     ELSE Loop(i + 1, Max(a, score), Max(bestScore, score))
    IN  IF depth <= 0 THEN standPat
        ELSE IF standPat >= beta THEN beta
        ELSE Loop(1, Max(alpha, standPat), standPat)

\* The entry just written for b, with what the value written is (history).
\* At a leaf it is compared with the value of the capture search when no
\* window cuts it short: an upper
\* bound when it lies above it, a lower bound when below.  In a node with
\* moves it is compared with the window the writing call was entered with:
\* an upper bound when no move raised alpha, a lower bound when beta was
\* reached.
Bounded(table, b, f) ==
    LET e == table[Hash(b)]
        q == QuiescenceValue(b, arg.quiescenceDepth, -INF, INF)
    IN  [table EXCEPT ![Hash(b)] =
            [eval |-> e.eval, depth |-> e.depth,
             bound |-> IF f.kind = "leaf"
                       THEN IF e.eval > q THEN "upper"
                            ELSE IF e.eval < q THEN "lower" ELSE "exact"
                       ELSE IF e.eval <= f.entry.alpha THEN "upper"
                       ELSE IF e.eval >= f.entry.beta THEN "lower"
                       ELSE "exact"]]

\* The transposition probe: a hit that ends the call.
ProbeHit(b, depth, beta) ==
    /\ transTableLookUp(Hash(b), depth).found
    /\ transTableLookUp(Hash(b), depth).eval >= beta

\* !alpha > INF/4, as C++ parses it: (!alpha) > INF/4.
NotAlphaAboveQuarter(alpha) == (IF alpha = 0 THEN 1 ELSE 0) > INF \div 4

pruningCondition(b, alpha) ==
    /\ ~InCheck(b)
    /\ ~mopUp
    /\ ~GamePhaseLow(b)
    /\ NotAlphaAboveQuarter(alpha)

\* Variant: a null move searched without reduction.
NullMoveSameDepth(depth) == depth

NullMoveDepth(depth) == depth - (3 + depth \div 4)

AB_GameOver(w) ==
    /\ At(w, "ab", "start")
    /\ IsGameOver(wk[w].localBoard) # "NONE"
    /\ LET f == Top(w)
           b == wk[w].localBoard
           val == GameOverValue(b, f.depth)
       IN  /\ wk' = [wk EXCEPT ![w] = Return(w, b, val, f.PV)]
           /\ obs' = Obs("ab", IF IsGameOver(b) = "CHECKMATE" THEN "mate"
                               ELSE "draw", f, b, val)
           /\ mates' = IF IsGameOver(b) = "CHECKMATE"
                       THEN mates \cup {[ply |-> Len(b), mag |-> Abs(val)]}
                       ELSE mates
    /\ nodeCount' = nodeCount + 1
    /\ UNCHANGED <<boundVars, sideVars, arg, board, otherEntries,
                   transpositionTable, hashMoveTable, killerMoves, previousPV,
                   globalMaxDepth, mopUp, fb, clock>>

AB_TTHit(w) ==
    /\ At(w, "ab", "start")
    /\ IsGameOver(wk[w].localBoard) = "NONE"
    /\ ProbeHit(wk[w].localBoard, Top(w).depth, Top(w).beta)
    /\ LET f == Top(w)
           b == wk[w].localBoard
           storedEval == transTableLookUp(Hash(b), f.depth).eval
       IN  /\ wk' = [wk EXCEPT ![w] = Return(w, b, storedEval, f.PV)]
           /\ obs' = Obs("ab", "tthit", f, b, storedEval)
    /\ nodeCount' = nodeCount + 1
    /\ UNCHANGED <<boundVars, sideVars, arg, board, otherEntries,
                   transpositionTable, hashMoveTable, killerMoves, previousPV,
                   globalMaxDepth, mopUp, fb, clock, mates>>

AB_Leaf(w) ==
    /\ At(w, "ab", "start")
    /\ IsGameOver(wk[w].localBoard) = "NONE"
    /\ ~ProbeHit(wk[w].localBoard, Top(w).depth, Top(w).beta)
    /\ Top(w).depth <= 0
    /\ LET f == Top(w)
           b == wk[w].localBoard
       IN  wk' = [wk EXCEPT ![w] =
                    Call(w, [f EXCEPT !.pc = "qRet", !.kind = "leaf"], b,
                         QFrame(b, arg.quiescenceDepth, f.alpha, f.beta))]
    /\ nodeCount' = nodeCount + 1
    /\ UNCHANGED <<boundVars, sideVars, arg, board, otherEntries,
                   transpositionTable, hashMoveTable, killerMoves, previousPV,
                   globalMaxDepth, mopUp, fb, clock, obs, mates>>

\* A node with depth > 0: futility pruning, razoring, null move, or the
\* start of the move loop.
AB_Node(w) ==
    /\ At(w, "ab", "start")
    /\ IsGameOver(wk[w].localBoard) = "NONE"
    /\ ~ProbeHit(wk[w].localBoard, Top(w).depth, Top(w).beta)
    /\ Top(w).depth > 0
    /\ LET f == Top(w)
           b == wk[w].localBoard
           isPV == f.alpha < f.beta - 1
           standPat == Color(b) * Evaluate(b)
           prune == pruningCondition(b, f.alpha)
           margin == f.depth * 130
           razorMargin == 300 + (f.depth - 1) * 60
           g == [f EXCEPT !.isPV = isPV, !.standPat = standPat]
       IN  IF f.depth < 3 /\ prune /\ standPat - margin > f.beta
           THEN /\ wk' = [wk EXCEPT ![w] = Return(w, b, standPat - margin, f.PV)]
                /\ obs' = Obs("ab", "futility", f, b, standPat - margin)
           ELSE IF f.depth <= 3 /\ prune /\ ~isPV /\ standPat + razorMargin < f.alpha
           THEN /\ wk' = [wk EXCEPT ![w] =
                    Call(w, [g EXCEPT !.pc = "qRet", !.kind = "razor"], b,
                         QFrame(b, arg.quiescenceDepth, f.alpha, f.beta))]
                /\ obs' = obs
           ELSE IF f.depth >= nullDepth /\ ~GamePhaseLow(b) /\ ~f.leftMost
                   /\ ~InCheck(b)
           THEN /\ wk' = [wk EXCEPT ![w] =
                    Call(w, [g EXCEPT !.pc = "nullRet"], MakeNullMove(b),
                         AbFrame(MakeNullMove(b), NullMoveDepth(f.depth),
                                 -f.beta, -f.beta + 1, <<>>, FALSE,
                                 f.extension))]
                /\ obs' = obs
           ELSE /\ wk' = [wk EXCEPT ![w] =
                    Cont(w, [g EXCEPT !.pc = "loop", !.i = 0,
                                !.bestEval = -INF,
                                !.moves = orderedMoves(b, f.depth, previousPV,
                                                       f.leftMost)], b)]
                /\ obs' = obs
    /\ nodeCount' = nodeCount + 1
    /\ UNCHANGED <<boundVars, sideVars, arg, board, otherEntries,
                   transpositionTable, hashMoveTable, killerMoves, previousPV,
                   globalMaxDepth, mopUp, fb, clock, mates>>

\* Back from quiescence: the leaf stores its value, razoring returns it.
AB_QRet(w) ==
    /\ At(w, "ab", "qRet")
    /\ LET f == Top(w)
           b == wk[w].localBoard
           quiescenceEval == wk[w].ret.val
       IN  /\ wk' = [wk EXCEPT ![w] = Return(w, b, quiescenceEval, f.PV)]
           /\ transpositionTable' =
                IF f.kind = "leaf"
                THEN Bounded(TableStore(transpositionTable, Hash(b),
                                        quiescenceEval, 0), b, f)
                ELSE transpositionTable
           /\ obs' = Obs("ab", f.kind, f, b, quiescenceEval)
    /\ UNCHANGED <<boundVars, sideVars, arg, board, otherEntries,
                   hashMoveTable, killerMoves, nodeCount, previousPV,
                   globalMaxDepth, mopUp, fb, clock, mates>>

AB_NullRet(w) ==
    /\ At(w, "ab", "nullRet")
    /\ LET f == Top(w)
           b == UnmakeNullMove(wk[w].localBoard)
           nullEval == -wk[w].ret.val
       IN  IF nullEval >= f.beta
           THEN /\ wk' = [wk EXCEPT ![w] = Return(w, b, f.beta, f.PV)]
                /\ obs' = Obs("ab", "nullcut", f, b, f.beta)
           ELSE /\ wk' = [wk EXCEPT ![w] =
                    Cont(w, [f EXCEPT !.pc = "loop", !.i = 0,
                                !.bestEval = -INF,
                                !.moves = orderedMoves(b, f.depth, previousPV,
                                                       f.leftMost)], b)]
                /\ obs' = obs
    /\ UNCHANGED <<boundVars, sideVars, arg, board, otherEntries,
                   transpositionTable, hashMoveTable, killerMoves, nodeCount,
                   previousPV, globalMaxDepth, mopUp, fb, clock, mates>>

\* mateThreatMove / promotionThreatMove as alphaBeta calls them, after
\* makeMove: the square the move came from is then empty, so the moved piece
\* reads as no piece and only the distance test of mateThreatMove can hold.
MateThreatAfterMove(move) == move.mtPost

PromotionThreatAfterMove(move) == FALSE

\* Variant: the move of the re-search is left on the board.
MoveLeftOnBoard(b, move) == b

\* The board after the child search of the move loop / of the re-search.
BoardAfterMoveSearch(b, move) == UnmakeMove(b, move)

BoardAfterReSearch(b, move) == UnmakeMove(b, move)

\* The depth of the scout search of a move: the reduced depth plus the
\* extension plies.
ScoutDepth(nextDepth, flag, plies) ==
    IF flag THEN nextDepth + plies ELSE nextDepth

AB_MoveCall(w) ==
    /\ At(w, "ab", "loop")
    /\ Top(w).i < Len(Top(w).moves)
    /\ LET f == Top(w)
           b == wk[w].localBoard
           move == f.moves[f.i + 1].move
           reduced == lateMoveReduction(b, move, f.i, f.depth, f.isPV)
           leftMost == IF f.i > 0 THEN FALSE ELSE f.leftMost
           b2 == MakeMove(b, move)
           isCheck == InCheck(b2)
           isMateThreat == MateThreatAfterMove(move)
           isPromotionThreat == PromotionThreatAfterMove(move)
           isOneReply == Len(f.moves) = 1
           extensionFlag == ExtensionFlag(isCheck, isMateThreat,
                                          isPromotionThreat, f.extension)
           extension == IF extensionFlag THEN f.extension - 1 ELSE f.extension
           nextDepth == ScoutDepth(reduced, extensionFlag,
                            ExtensionPlies(isCheck, isMateThreat,
                                           isPromotionThreat, isOneReply))
           g == [f EXCEPT !.pc = "moveRet", !.move = move,
                    !.leftMost = leftMost, !.extension = extension,
                    !.nextDepth = nextDepth, !.childPV = <<>>, !.eval = 0]
       IN  wk' = [wk EXCEPT ![w] =
              IF f.isPV \/ leftMost
              THEN Call(w, g, b2, AbFrame(b2, f.depth - 1, -f.beta, -f.alpha,
                                          <<>>, leftMost, extension))
              ELSE Call(w, g, b2, AbFrame(b2, nextDepth, -(f.alpha + 1),
                                          -f.alpha, <<>>, leftMost, extension))]
    /\ UNCHANGED <<boundVars, sideVars, arg, board, otherEntries,
                   transpositionTable, hashMoveTable, killerMoves, nodeCount,
                   previousPV, globalMaxDepth, mopUp, fb, clock, obs, mates>>

\* The end of the loop body for a move whose value is eval: PV, bestEval,
\* alpha, the cutoff; after the last move or a cutoff, the table update and
\* the return.
AfterMove(w, f, b, eval, childPV) ==
    LET PV == IF eval > f.alpha THEN <<f.move.id>> \o childPV ELSE f.PV
        bestEval == Max(f.bestEval, eval)
        alpha == Max(f.alpha, eval)
        cutoff == f.beta <= alpha
        last == f.i + 1 >= Len(f.moves)
    IN  /\ killerMoves' = IF cutoff THEN updateKillerMoves(f.move, f.depth)
                          ELSE killerMoves
        /\ IF cutoff \/ last
           THEN /\ wk' = [wk EXCEPT ![w] = Return(w, b, bestEval, PV)]
                /\ transpositionTable' =
                     IF Len(PV) > 0
                     THEN Bounded(TableStore(transpositionTable, Hash(b),
                                             bestEval, f.depth), b, f)
                     ELSE transpositionTable
                /\ hashMoveTable' =
                     IF Len(PV) > 0
                     THEN HashMoveStore(hashMoveTable, Hash(b), PV[1])
                     ELSE hashMoveTable
                /\ obs' = Obs("ab", IF cutoff THEN "cutoff" ELSE "node",
                              [f EXCEPT !.PV = PV], b, bestEval)
           ELSE /\ wk' = [wk EXCEPT ![w] =
                    Cont(w, [f EXCEPT !.PV = PV, !.bestEval = bestEval,
                                !.alpha = alpha, !.i = f.i + 1, !.pc = "loop",
                                !.eval = eval, !.childPV = childPV], b)]
                /\ UNCHANGED <<transpositionTable, hashMoveTable, obs>>

AB_MoveRet(w) ==
    /\ At(w, "ab", "moveRet")
    /\ LET f == Top(w)
           eval == -wk[w].ret.val
           childPV == wk[w].ret.PV
           b == BoardAfterMoveSearch(wk[w].localBoard, f.move)
           alphaRaised == eval > f.alpha
       IN  IF f.leftMost \/ (alphaRaised /\ f.nextDepth < f.depth - 1)
           THEN /\ wk' = [wk EXCEPT ![w] =
                    Call(w, [f EXCEPT !.pc = "reRet", !.eval = eval,
                                !.childPV = childPV], MakeMove(b, f.move),
                         AbFrame(MakeMove(b, f.move), f.depth - 1, -f.beta,
                                 -f.alpha, childPV, f.leftMost, f.extension))]
                /\ UNCHANGED <<transpositionTable, hashMoveTable, killerMoves,
                               obs>>
           ELSE AfterMove(w, f, b, eval, childPV)
    /\ UNCHANGED <<boundVars, sideVars, arg, board, otherEntries, nodeCount,
                   previousPV, globalMaxDepth, mopUp, fb, clock, mates>>

AB_ReRet(w) ==
    /\ At(w, "ab", "reRet")
    /\ AfterMove(w, Top(w), BoardAfterReSearch(wk[w].localBoard, Top(w).move),
                 -wk[w].ret.val, wk[w].ret.PV)
    /\ UNCHANGED <<boundVars, sideVars, arg, board, otherEntries, nodeCount,
                   previousPV, globalMaxDepth, mopUp, fb, clock, mates>>

(***************************************************************************)
(* quiescence                                                              *)
(***************************************************************************)
Q_Start(w) ==
    /\ At(w, "q", "start")
    /\ LET f == Top(w)
           b == wk[w].localBoard
           standPat == Color(b) * Evaluate(b)
           alpha == Max(f.alpha, standPat)
           candidateMoves == QuiescenceCandidates(b)
       IN  IF f.depth <= 0
           THEN /\ wk' = [wk EXCEPT ![w] = Return(w, b, standPat, <<>>)]
                /\ obs' = Obs("q", "depth", f, b, standPat)
           ELSE IF standPat >= f.beta
           THEN /\ wk' = [wk EXCEPT ![w] = Return(w, b, f.beta, <<>>)]
                /\ obs' = Obs("q", "standbeta", f, b, f.beta)
           ELSE IF candidateMoves = <<>>
           THEN /\ wk' = [wk EXCEPT ![w] = Return(w, b, standPat, <<>>)]
                /\ obs' = Obs("q", "best", f, b, standPat)
           ELSE /\ wk' = [wk EXCEPT ![w] =
                    Cont(w, [f EXCEPT !.pc = "loop", !.i = 0, !.alpha = alpha,
                                !.standPat = standPat, !.bestScore = standPat,
                                !.moves = candidateMoves], b)]
                /\ obs' = obs
    /\ nodeCount' = nodeCount + 1
    /\ UNCHANGED <<boundVars, sideVars, arg, board, otherEntries,
                   transpositionTable, hashMoveTable, killerMoves, previousPV,
                   globalMaxDepth, mopUp, fb, clock, mates>>

Q_MoveCall(w) ==
    /\ At(w, "q", "loop")
    /\ LET f == Top(w)
           move == f.moves[f.i + 1].move
           b2 == MakeMove(wk[w].localBoard, move)
       IN  wk' = [wk EXCEPT ![w] =
                    Call(w, [f EXCEPT !.pc = "moveRet", !.move = move], b2,
                         QFrame(b2, f.depth - 1, -f.beta, -f.alpha))]
    /\ UNCHANGED <<boundVars, sideVars, arg, board, otherEntries,
                   transpositionTable, hashMoveTable, killerMoves, nodeCount,
                   previousPV, globalMaxDepth, mopUp, fb, clock, obs, mates>>

Q_MoveRet(w) ==
    /\ At(w, "q", "moveRet")
    /\ LET f == Top(w)
           score == -wk[w].ret.val
           b == UnmakeMove(wk[w].localBoard, f.move)
           bestScore == Max(f.bestScore, score)
           alpha == Max(f.alpha, score)
       IN  IF alpha >= f.beta
           THEN /\ wk' = [wk EXCEPT ![w] = Return(w, b, f.beta, <<>>)]
                /\ obs' = Obs("q", "cutbeta", f, b, f.beta)
           ELSE IF f.i + 1 >= Len(f.moves)
           THEN /\ wk' = [wk EXCEPT ![w] = Return(w, b, bestScore, <<>>)]
                /\ obs' = Obs("q", "best", f, b, bestScore)
           ELSE /\ wk' = [wk EXCEPT ![w] =
                    Cont(w, [f EXCEPT !.pc = "loop", !.i = f.i + 1,
                                !.alpha = alpha, !.bestScore = bestScore], b)]
                /\ obs' = obs
    /\ UNCHANGED <<boundVars, sideVars, arg, board, otherEntries,
                   transpositionTable, hashMoveTable, killerMoves, nodeCount,
                   previousPV, globalMaxDepth, mopUp, fb, clock, mates>>

(***************************************************************************)
(* findBestMove (negamax version).  The body of the parallel for is run by *)
(* the workers; schedule(dynamic, 1) hands the next index to a free one.   *)
(***************************************************************************)
\* transpositionTable.size()
TableSize == Cardinality(DOMAIN transpositionTable) + otherEntries

\* The clearing of the tables on entry and before the final return.
ClearedTable(table) == IF TableSize > maxTableSize THEN << >> ELSE table

ClearedCount(n) == IF TableSize > maxTableSize THEN 0 ELSE n

\* What an element of evals that was never written may hold.
Garbage == {0, 1000}

stableEval(evals, depth, g) ==
    ~(/\ depth >= 4
      /\ depth <= ENGINE_DEPTH
      /\ \E i \in 0..3 :
            LET a == IF depth - i \in DOMAIN evals THEN evals[depth - i] ELSE g
                b == IF depth - i - 1 \in DOMAIN evals
                     THEN evals[depth - i - 1] ELSE g
            IN  Abs(a - b) > StableMargin)

FB_Enter ==
    /\ fb.pc = "call"
    /\ mopUp' = IF W.bare THEN TRUE ELSE mopUp
    /\ transpositionTable' = ClearedTable(transpositionTable)
    /\ hashMoveTable' = ClearedTable(hashMoveTable)
    /\ otherEntries' = ClearedCount(otherEntries)
    /\ fb' = [fb EXCEPT !.pc = "iter", !.depth = baseDepth,
                 !.bestMove = NoMove, !.bestEval = -INF,
                 !.timeLimitExceeded = FALSE, !.moves = <<>>,
                 !.evals = << >>,
                 !.color = Color(board)]
    /\ UNCHANGED <<boundVars, sideVars, arg, board, killerMoves, nodeCount,
                   previousPV, globalMaxDepth, wk, clock, obs, mates>>

FB_IterStart ==
    /\ fb.pc = "iter"
    /\ fb.depth <= arg.maxDepth
    /\ nodeCount' = 0
    /\ globalMaxDepth' = fb.depth
    /\ fb' = [fb EXCEPT !.pc = "par", !.currentBestMove = NoMove,
                 !.currentBestEval = -INF, !.newMoves = <<>>, !.PV = <<>>,
                 !.next = 0,
                 !.moves = IF fb.depth = baseDepth
                           THEN orderedMoves(board, fb.depth, previousPV, FALSE)
                           ELSE fb.moves]
    /\ mates' = {}
    /\ UNCHANGED <<boundVars, sideVars, arg, board, otherEntries,
                   transpositionTable, hashMoveTable, killerMoves, previousPV,
                   mopUp, wk, clock, obs>>

\* A free thread takes the next index of the parallel for: the locals of the
\* loop body up to the aspiration loop.
W_Take(w) ==
    /\ fb.pc = "par"
    /\ wk[w].stack = <<>>
    /\ fb.next < Len(fb.moves)
    /\ LET i == fb.next
           move == fb.moves[i + 1].move
           localBoard == board
           f == [BlankFrame EXCEPT !.fn = "root", !.pc = "asp", !.i = i,
                    !.depth = fb.depth, !.leftMost = (i = 0), !.move = move,
                    !.childPV = <<>>, !.extension = InitialExtension,
                    !.newBestFlag = FALSE,
                    !.nextDepth = lateMoveReduction(localBoard, move, i,
                                                    fb.depth, TRUE),
                    !.eval = -INF,
                    !.aspiration = IF fb.depth = 1
                                   THEN fb.color * Evaluate(localBoard)
                                   ELSE fb.evals[fb.depth - 1],
                    !.windowLeft = InitialWindow,
                    !.windowRight = InitialWindow]
       IN  /\ wk' = [wk EXCEPT ![w] = [stack |-> <<f>>,
                                       localBoard |-> localBoard,
                                       ret |-> wk[w].ret]]
           /\ fb' = [fb EXCEPT !.next = i + 1]
    /\ UNCHANGED <<boundVars, sideVars, arg, board, otherEntries,
                   transpositionTable, hashMoveTable, killerMoves, nodeCount,
                   previousPV, globalMaxDepth, mopUp, clock, obs, mates>>

\* One pass of the aspiration loop up to the call of alphaBeta.  The
\* extension test of the root loop reads the caller's board, on which the
\* move has not been made.
W_AspCall(w) ==
    /\ At(w, "root", "asp")
    /\ LET f == Top(w)
           b2 == MakeMove(wk[w].localBoard, f.move)
           isCheck == InCheck(board)
           isMateThreat == f.move.mt
           isPromotionThreat == f.move.pt
           isOneReply == Len(fb.moves) = 1
           extensionFlag == ExtensionFlag(isCheck, isMateThreat,
                                          isPromotionThreat, f.extension)
           extension == IF extensionFlag THEN f.extension - 1 ELSE f.extension
           nextDepth == ScoutDepth(f.nextDepth, extensionFlag,
                            ExtensionPlies(isCheck, isMateThreat,
                                           isPromotionThreat, isOneReply))
           alpha == f.aspiration - f.windowLeft
           beta == f.aspiration + f.windowRight
       IN  wk' = [wk EXCEPT ![w] =
                    Call(w, [f EXCEPT !.pc = "aspRet", !.extension = extension,
                                !.nextDepth = nextDepth, !.alpha = alpha,
                                !.beta = beta], b2,
                         AbFrame(b2, nextDepth, -beta, -alpha, f.childPV,
                                 f.leftMost, extension))]
    /\ UNCHANGED <<boundVars, sideVars, arg, board, otherEntries,
                   transpositionTable, hashMoveTable, killerMoves, nodeCount,
                   previousPV, globalMaxDepth, mopUp, fb, clock, obs, mates>>

\* windowLeft *= 2, windowRight *= 2
\* Variant: the margin tripled.
WidenByThree(window) == window * 3

Widen(window) == window * 2

\* Back in the aspiration loop: widen a side of the window or leave.
W_AspRet(w) ==
    /\ At(w, "root", "aspRet")
    /\ LET f == Top(w)
           eval == -wk[w].ret.val
           b == UnmakeMove(wk[w].localBoard, f.move)
           g == [f EXCEPT !.eval = eval, !.childPV = wk[w].ret.PV]
       IN  wk' = [wk EXCEPT ![w] =
              IF eval <= f.aspiration - f.windowLeft
              THEN Cont(w, [g EXCEPT !.pc = "asp",
                               !.windowLeft = Widen(f.windowLeft)], b)
              ELSE IF eval >= f.aspiration + f.windowRight
              THEN Cont(w, [g EXCEPT !.pc = "asp",
                               !.windowRight = Widen(f.windowRight)], b)
              ELSE Cont(w, [g EXCEPT !.pc = "flag"], b)]
    /\ UNCHANGED <<boundVars, sideVars, arg, board, otherEntries,
                   transpositionTable, hashMoveTable, killerMoves, nodeCount,
                   previousPV, globalMaxDepth, mopUp, fb, clock, obs, mates>>

\* Variant: the comparison of the critical sections the other way round.
WorseThanBest(eval, currentBestEval) == eval < currentBestEval

\* eval > currentBestEval, the test of both critical sections.
BetterThanBest(eval, currentBestEval) == eval > currentBestEval

\* The critical section that sets newBestFlag, and the re-search it decides.
W_Flag(w) ==
    /\ At(w, "root", "flag")
    /\ LET f == Top(w)
           b == wk[w].localBoard
           newBestFlag == BetterThanBest(f.eval, fb.currentBestEval)
           g == [f EXCEPT !.newBestFlag = newBestFlag]
       IN  wk' = [wk EXCEPT ![w] =
              IF newBestFlag /\ f.nextDepth < f.depth - 1
              THEN Call(w, [g EXCEPT !.pc = "reRet"], MakeMove(b, f.move),
                        AbFrame(MakeMove(b, f.move), f.depth - 1, -INF, INF,
                                f.childPV, f.leftMost, f.extension))
              ELSE Cont(w, [g EXCEPT !.pc = "push"], b)]
    /\ UNCHANGED <<boundVars, sideVars, arg, board, otherEntries,
                   transpositionTable, hashMoveTable, killerMoves, nodeCount,
                   previousPV, globalMaxDepth, mopUp, fb, clock, obs, mates>>

W_RootReRet(w) ==
    /\ At(w, "root", "reRet")
    /\ LET f == Top(w)
       IN  wk' = [wk EXCEPT ![w] =
              Cont(w, [f EXCEPT !.pc = "push", !.eval = -wk[w].ret.val,
                          !.childPV = wk[w].ret.PV],
                   UnmakeMove(wk[w].localBoard, f.move))]
    /\ UNCHANGED <<boundVars, sideVars, arg, board, otherEntries,
                   transpositionTable, hashMoveTable, killerMoves, nodeCount,
                   previousPV, globalMaxDepth, mopUp, fb, clock, obs, mates>>

\* critical: newMoves.push_back({move, eval})
W_Push(w) ==
    /\ At(w, "root", "push")
    /\ fb' = [fb EXCEPT !.newMoves = Append(fb.newMoves,
                                            Pair(Top(w).move, Top(w).eval))]
    /\ wk' = [wk EXCEPT ![w] =
                Cont(w, [Top(w) EXCEPT !.pc = "best"], wk[w].localBoard)]
    /\ UNCHANGED <<boundVars, sideVars, arg, board, otherEntries,
                   transpositionTable, hashMoveTable, killerMoves, nodeCount,
                   previousPV, globalMaxDepth, mopUp, clock, obs, mates>>

\* critical: the update of currentBestEval / currentBestMove / PV; the loop
\* body ends.
W_Best(w) ==
    /\ At(w, "root", "best")
    /\ LET f == Top(w)
       IN  fb' = IF BetterThanBest(f.eval, fb.currentBestEval)
                 THEN [fb EXCEPT !.currentBestEval = f.eval,
                          !.currentBestMove = f.move.id,
                          !.PV = <<f.move.id>> \o f.childPV]
                 ELSE fb
    /\ wk' = [wk EXCEPT ![w] = [wk[w] EXCEPT !.stack = <<>>]]
    /\ UNCHANGED <<boundVars, sideVars, arg, board, otherEntries,
                   transpositionTable, hashMoveTable, killerMoves, nodeCount,
                   previousPV, globalMaxDepth, mopUp, clock, obs, mates>>

\* After the parallel for (its implicit barrier): lines 1387-1456.
FB_IterEnd ==
    /\ fb.pc = "par"
    /\ fb.next >= Len(fb.moves)
    /\ \A w \in Workers : wk[w].stack = <<>>
    /\ \E t \in clock..2, g \in Garbage :
         LET bestMove == fb.currentBestMove
             bestEval == fb.currentBestEval
             moves == SortDesc(fb.newMoves)
             timeLimitExceeded == t >= 1
             spendTooMuchTime == t >= 2
             evals == [k \in DOMAIN fb.evals \cup {fb.depth} |->
                         IF k = fb.depth THEN bestEval ELSE fb.evals[k]]
             stable == stableEval(evals, fb.depth, g)
             h == [fb EXCEPT !.bestMove = bestMove, !.bestEval = bestEval,
                      !.moves = moves,
                      !.fullBest = IF Len(fb.newMoves) = Len(fb.moves)
                                   THEN fb.fullBest \cup {bestMove}
                                   ELSE fb.fullBest]
         IN  /\ transpositionTable' =
                  Bounded(TableStore(transpositionTable, Hash(board),
                                     bestEval, fb.depth), board,
                          [kind |-> "root",
                           entry |-> [alpha |-> -INF, beta |-> INF]])
             /\ previousPV' = fb.PV
             /\ IF Len(moves) = 1
                THEN /\ fb' = [h EXCEPT !.pc = "done",
                                  !.result = moves[1].move.id]
                     /\ clock' = clock
                ELSE /\ clock' = t
                     /\ fb' = [h EXCEPT
                          !.timeLimitExceeded = timeLimitExceeded,
                          !.evals = evals,
                          !.pc = IF ~timeLimitExceeded THEN "iter"
                                 ELSE IF stable THEN "exit"
                                 ELSE IF fb.depth > ENGINE_DEPTH
                                         \/ spendTooMuchTime THEN "exit"
                                 ELSE "iter",
                          !.depth = IF ~timeLimitExceeded THEN fb.depth + 1
                                    ELSE IF stable THEN fb.depth
                                    ELSE IF fb.depth > ENGINE_DEPTH
                                            \/ spendTooMuchTime THEN fb.depth
                                    ELSE fb.depth + 1]
    /\ UNCHANGED <<boundVars, sideVars, arg, board, otherEntries,
                   hashMoveTable, killerMoves, nodeCount, globalMaxDepth,
                   mopUp, wk, obs, mates>>

\* The loop is left (its condition fails, or break): the final clearing of
\* the tables and return bestMove.
FB_Exit ==
    /\ \/ fb.pc = "exit"
       \/ fb.pc = "iter" /\ fb.depth > arg.maxDepth
    /\ transpositionTable' = ClearedTable(transpositionTable)
    /\ hashMoveTable' = ClearedTable(hashMoveTable)
    /\ otherEntries' = ClearedCount(otherEntries)
    /\ fb' = [fb EXCEPT !.pc = "done", !.result = fb.bestMove]
    /\ UNCHANGED <<boundVars, sideVars, arg, board, killerMoves, nodeCount,
                   previousPV, globalMaxDepth, mopUp, wk, clock, obs, mates>>

(***************************************************************************)
(* The lower/upper-bound-table versions: search.cpp ("cpp") and the        *)
(* earlier version at the top of search.hpp ("earlier").  White maximises, *)
(* Black minimises; scores are from White's side.  arg.version says which  *)
(* of the two findBestMove was called.                                     *)
(***************************************************************************)
R == 2
razorMargin == 350
deltaMargin == 400
maxChecks == 4
transTableMaxSize == 1000000000

\* tableMaxSize of search.cpp is 5000000000, counted here in thousands.
tableMaxSizeThousands == 5000000

Min(a, b) == IF a <= b THEN a ELSE b

Version == arg.version

BaseDepth == IF Version = "cpp" THEN 4 ELSE 1

NullDepth == IF Version = "cpp" THEN 6 ELSE 4

\* table.size() > tableMaxSize / transTableMaxSize
TableTooLarge(table) ==
    LET n == Cardinality(DOMAIN table)
    IN  IF Version = "cpp"
        THEN \/ n \div 1000 > tableMaxSizeThousands
             \/ n \div 1000 = tableMaxSizeThousands /\ n % 1000 > 0
        ELSE n > transTableMaxSize

\* std::sort with a "less" comparison on the key.
SortAsc(s) ==
    LET neg(t) == [k \in 1..Len(t) |-> Pair(t[k].move, -t[k].second)]
    IN  neg(SortDesc(neg(s)))

\* transTableLookUp(table, hash, depth, eval) of the bound-table versions.
transTableLookUpIn(table, hash, depth) ==
    LET found == hash \in DOMAIN table /\ table[hash].depth >= depth
    IN  [found |-> found, eval |-> IF found THEN table[hash].eval ELSE 0]

\* whiteHistory[from][to] / blackHistory[from][to]; the cells start at 0.
HistoryAt(history, move) ==
    IF move.id \in DOMAIN history THEN history[move.id] ELSE 0

HistoryStore(history, move, value) ==
    [k \in DOMAIN history \cup {move.id} |->
        IF k = move.id THEN value ELSE history[k]]

RECURSIVE Pow(_, _)
Pow(x, n) == IF n = 0 THEN 1 ELSE x * Pow(x, n - 1)

\* The integer part of (quarters / 4) * log2(x), from k upwards: the largest
\* k with 16^k <= x^quarters.  (It agrees with the floating-point expression
\* of depthReduction wherever that expression is reached with depth <= 9
\* and i <= 40.)
RECURSIVE LogPart(_, _, _)
LogPart(x, quarters, k) ==
    IF Pow(16, k + 1) <= Pow(x, quarters) THEN LogPart(x, quarters, k + 1)
    ELSE k

\* Late move reduction: int R = 1 + a*log(depth)/log(2) + a*log(i)/log(2),
\* with a = 0.5 in search.cpp and 0.75 in the earlier version.
depthReduction(i, depth) ==
    IF Version = "cpp"
    THEN IF i <= 5 THEN depth - 1
         ELSE IF depth <= 2 THEN depth - 1
         ELSE depth - (1 + LogPart(depth * i, 2, 0))
    ELSE IF i <= 2 \/ depth <= 2 THEN depth - 1
         ELSE depth - (1 + LogPart(depth * i, 3, 0))

\* quietPriority of search.cpp: by the type of the piece moved (the
\* pieceValues index) and the squares it attacks from the target square.
quietPriority(move) ==
    LET threat == IF move.threat = 1 THEN 100
                  ELSE IF move.threat >= 2 THEN 200 ELSE 0
    IN  IF move.att = 1 THEN 0
        ELSE IF move.att \in {2, 3} THEN 400 + threat
        ELSE IF move.att = 4 THEN 300 + threat
        ELSE IF move.att = 5 THEN 200
        ELSE 0

\* One move of prioritizedMoves: its priority and whether it goes to
\* quietCandidates.
PriorityClass(b, move, depth) ==
    LET whiteTurn == SideToMove(b) = "W"
        isKiller == \E k \in 1..Len(KillersAt(depth)) :
                        KillersAt(depth)[k] = move.id
        history == IF whiteTurn THEN HistoryAt(whiteHistory, move)
                   ELSE HistoryAt(blackHistory, move)
    IN  IF move.qp THEN [quiet |-> FALSE, priority |-> 5000]
        ELSE IF move.cap
        THEN [quiet |-> FALSE,
              priority |-> 4000 + PieceValue(move.vic) - PieceValue(move.att)]
        ELSE IF isKiller THEN [quiet |-> FALSE, priority |-> 3000]
        ELSE IF InCheck(MakeMove(b, move))
        THEN [quiet |-> FALSE, priority |-> 2000]
        ELSE [quiet |-> TRUE,
              priority |-> IF Version = "cpp" /\ history = 0
                           THEN quietPriority(move) ELSE history]

\* Both lists are sorted; the games of this model give the moves of a list
\* longer than 16 distinct priorities, so that the order does not depend on
\* how std::sort treats equal keys.
prioritizedMoves(b, depth) ==
    LET moves == LegalMoves(b)
        all == [k \in 1..Len(moves) |->
                  [move |-> moves[k],
                   second |-> PriorityClass(b, moves[k], depth).priority,
                   quiet |-> PriorityClass(b, moves[k], depth).quiet]]
        strip(s) == [k \in 1..Len(s) |-> Pair(s[k].move, s[k].second)]
    IN  SortDesc(strip(SelectSeq(all, IsTacticalEntry)))
        \o SortDesc(strip(SelectSeq(all, IsQuietEntry)))

(***************************************************************************)
(* quiescence of the bound-table versions.  It changes no global and       *)
(* leaves the board as it found it, so it is given as its value.  The only *)
(* promotions of the modelled games are queen promotions (isPromotion).    *)
(***************************************************************************)
\* candidateMoves, sorted by priority.
CandidateMoves(b, numChecks) ==
    LET moves == LegalMoves(b)
        inCheck == InCheck(b)
        isCandidate(move) ==
            LET isCheck == InCheck(MakeMove(b, move))
            IN  IF Version = "cpp" THEN move.cap \/ move.qp
                ELSE /\ move.cap \/ move.qp \/ isCheck \/ inCheck
                     /\ ~(numChecks > maxChecks /\ isCheck)
                     /\ move.qp \/ move.cap
        kept == {k \in 1..Len(moves) : isCandidate(moves[k])}
        keep(k) == k \in kept
        index == SelectSeq([k \in 1..Len(moves) |-> k], keep)
    IN  SortDesc([j \in 1..Len(index) |->
            Pair(moves[index[j]],
                 IF moves[index[j]].qp THEN 5000
                 ELSE PieceValue(moves[index[j]].vic)
                      - PieceValue(moves[index[j]].att))])

RECURSIVE quiescence(_, _, _, _, _)
RECURSIVE QuiescenceLoop(_, _, _, _, _, _, _, _)

\* The loop over candidateMoves from its k-th element on.
QuiescenceLoop(b, depth, alpha, beta, numChecks, candidateMoves, k, standPat) ==
    LET whiteTurn == SideToMove(b) = "W"
        move == candidateMoves[k].move
        priority == candidateMoves[k].second
        b2 == MakeMove(b, move)
        deltaPruned ==
            /\ Version = "cpp"
            /\ IF whiteTurn THEN standPat + priority + deltaMargin < alpha
               ELSE standPat - priority - deltaMargin > beta
        score == quiescence(b2, depth - 1, alpha, beta,
                            IF Version # "cpp" /\ InCheck(b2)
                            THEN numChecks + 1 ELSE numChecks)
    IN  IF k > Len(candidateMoves) THEN (IF whiteTurn THEN alpha ELSE beta)
        ELSE IF deltaPruned
        THEN QuiescenceLoop(b, depth, alpha, beta, numChecks, candidateMoves,
                            k + 1, standPat)
        ELSE IF whiteTurn
        THEN IF score >= beta THEN beta
             ELSE QuiescenceLoop(b, depth, Max(alpha, score), beta, numChecks,
                                 candidateMoves, k + 1, standPat)
        ELSE IF score <= alpha THEN alpha
             ELSE QuiescenceLoop(b, depth, alpha, Min(beta, score), numChecks,
                                 candidateMoves, k + 1, standPat)

quiescence(b, depth, alpha, beta, numChecks) ==
    LET whiteTurn == SideToMove(b) = "W"
        standPat == Evaluate(b)
        \* the earlier version skips the stand-pat test when in check
        stands == Version = "cpp" \/ ~InCheck(b)
    IN  IF depth = 0 THEN Evaluate(b)
        ELSE IF stands /\ whiteTurn /\ standPat >= beta THEN beta
        ELSE IF stands /\ ~whiteTurn /\ standPat <= alpha THEN alpha
        ELSE QuiescenceLoop(b, depth,
                 IF stands /\ whiteTurn THEN Max(alpha, standPat) ELSE alpha,
                 IF stands /\ ~whiteTurn THEN Min(beta, standPat) ELSE beta,
                 numChecks, CandidateMoves(b, numChecks), 1, standPat)

(***************************************************************************)
(* alphaBeta of the bound-table versions.                                  *)
(***************************************************************************)
\* The globals that only the negamax version has, and the history
\* variables of its properties.
negamaxVars == <<otherEntries, transpositionTable, hashMoveTable, nodeCount,
                 previousPV, mopUp, obs, mates>>

BtFrame(b, depth, alpha, beta, PV) ==
    [AbFrame(b, depth, alpha, beta, PV, FALSE, 0) EXCEPT !.fn = "bt"]

WhiteTurn(b) == SideToMove(b) = "W"

\* lowerBoundTable[hash] = {eval, depth} for White to move, upperBoundTable
\* for Black.
StoreBound(b, eval, depth) ==
    IF WhiteTurn(b)
    THEN /\ lowerBoundTable' = TableStore(lowerBoundTable, Hash(b), eval, depth)
         /\ upperBoundTable' = upperBoundTable
    ELSE /\ upperBoundTable' = TableStore(upperBoundTable, Hash(b), eval, depth)
         /\ lowerBoundTable' = lowerBoundTable

\* From razoring (search.cpp only) to the start of the move loop.
BT_Body(w, f, b) ==
    LET razor == Version = "cpp" /\ f.depth <= 2 /\ ~InCheck(b)
        standPat == quiescence(b, arg.quiescenceDepth, f.alpha, f.beta, 0)
        moves == prioritizedMoves(b, f.depth)
        bestEval == IF WhiteTurn(b) THEN -INF ELSE INF
    IN  IF razor /\ WhiteTurn(b) /\ standPat + razorMargin < f.alpha
        THEN /\ wk' = [wk EXCEPT ![w] = Return(w, b, f.alpha, f.PV)]
             /\ UNCHANGED <<lowerBoundTable, upperBoundTable>>
        ELSE IF razor /\ ~WhiteTurn(b) /\ standPat - razorMargin > f.beta
        THEN /\ wk' = [wk EXCEPT ![w] = Return(w, b, f.beta, f.PV)]
             /\ UNCHANGED <<lowerBoundTable, upperBoundTable>>
        ELSE IF moves = <<>>
        THEN /\ wk' = [wk EXCEPT ![w] = Return(w, b, bestEval, f.PV)]
             /\ StoreBound(b, bestEval, f.depth)
        ELSE /\ wk' = [wk EXCEPT ![w] =
                 Cont(w, [f EXCEPT !.pc = "loop", !.i = 0,
                             !.bestEval = bestEval, !.moves = moves], b)]
             /\ UNCHANGED <<lowerBoundTable, upperBoundTable>>

\* Entry of alphaBeta: game over, the table probe, the leaf, the null move.
BT_Enter(w) ==
    /\ At(w, "bt", "start")
    /\ LET f == Top(w)
           b == wk[w].localBoard
           look == transTableLookUpIn(
                       IF WhiteTurn(b) THEN lowerBoundTable ELSE upperBoundTable,
                       Hash(b), f.depth)
           found == /\ look.found
                    /\ IF WhiteTurn(b) THEN look.eval >= f.beta
                       ELSE look.eval <= f.alpha
           quiescenceEval ==
               quiescence(b, arg.quiescenceDepth, f.alpha, f.beta, 0)
           nullMove == /\ Version = "cpp" => ~GamePhaseLow(b)
                       /\ f.depth >= NullDepth
                       /\ ~InCheck(b)
           b0 == MakeNullMove(b)
           \* -INF/2 is (-INF)/2
           mated == IF WhiteTurn(b) THEN -(INF \div 2) + (1000 - f.depth)
                    ELSE (INF \div 2) - (1000 - f.depth)
       IN  IF IsGameOver(b) # "NONE"
           THEN /\ wk' = [wk EXCEPT ![w] =
                    Return(w, b, IF IsGameOver(b) = "CHECKMATE"
                                 THEN mated ELSE 0, f.PV)]
                /\ UNCHANGED <<lowerBoundTable, upperBoundTable>>
           ELSE IF found
           THEN /\ wk' = [wk EXCEPT ![w] = Return(w, b, look.eval, f.PV)]
                /\ UNCHANGED <<lowerBoundTable, upperBoundTable>>
           ELSE IF f.depth <= 0
           THEN /\ wk' = [wk EXCEPT ![w] = Return(w, b, quiescenceEval, f.PV)]
                /\ StoreBound(b, quiescenceEval, f.depth)
           ELSE IF nullMove
           THEN /\ wk' = [wk EXCEPT ![w] =
                    Call(w, [f EXCEPT !.pc = "nullRet"], b0,
                         IF Version # "cpp"
                         THEN BtFrame(b0, f.depth - R, f.alpha, f.beta, <<>>)
                         ELSE IF WhiteTurn(b)
                         THEN BtFrame(b0, f.depth - R, f.beta - 1, f.beta, <<>>)
                         ELSE BtFrame(b0, f.depth - R, f.alpha, f.alpha + 1,
                                      <<>>))]
                /\ UNCHANGED <<lowerBoundTable, upperBoundTable>>
           ELSE BT_Body(w, f, b)
    /\ UNCHANGED <<negamaxVars, sideVars, arg, board, killerMoves,
                   globalMaxDepth, fb, clock, whiteHistory, blackHistory>>

\* Back from the null move: the cutoff (search.cpp returns nullEval, the
\* earlier version the bound), or on to the moves.
BT_NullRet(w) ==
    /\ At(w, "bt", "nullRet")
    /\ LET f == Top(w)
           b == UnmakeNullMove(wk[w].localBoard)
           nullEval == wk[w].ret.val
       IN  IF WhiteTurn(b) /\ nullEval >= f.beta
           THEN /\ wk' = [wk EXCEPT ![w] =
                    Return(w, b, IF Version = "cpp" THEN nullEval ELSE f.beta,
                           f.PV)]
                /\ UNCHANGED <<lowerBoundTable, upperBoundTable>>
           ELSE IF ~WhiteTurn(b) /\ nullEval <= f.alpha
           THEN /\ wk' = [wk EXCEPT ![w] =
                    Return(w, b, IF Version = "cpp" THEN nullEval ELSE f.alpha,
                           f.PV)]
                /\ UNCHANGED <<lowerBoundTable, upperBoundTable>>
           ELSE BT_Body(w, f, b)
    /\ UNCHANGED <<negamaxVars, sideVars, arg, board, killerMoves,
                   globalMaxDepth, fb, clock, whiteHistory, blackHistory>>

\* The move of the loop is searched first at nextDepth: the earlier version
\* reduces every late move, search.cpp all but the checking ones.
BT_MoveCall(w) ==
    /\ At(w, "bt", "loop")
    /\ LET f == Top(w)
           move == f.moves[f.i + 1].move
           b2 == MakeMove(wk[w].localBoard, move)
           nextDepth == IF Version = "cpp" /\ InCheck(b2) THEN f.depth - 1
                        ELSE depthReduction(f.i, f.depth)
       IN  wk' = [wk EXCEPT ![w] =
              Call(w, [f EXCEPT !.pc = "moveRet", !.move = move,
                          !.nextDepth = nextDepth, !.childPV = <<>>], b2,
                   BtFrame(b2, nextDepth, f.alpha, f.beta, <<>>))]
    /\ UNCHANGED <<negamaxVars, sideVars, boundVars, arg, board, killerMoves,
                   globalMaxDepth, fb, clock>>

\* eval > alpha for White, eval < beta for Black.
Improves(b, f, eval) ==
    IF WhiteTurn(b) THEN eval > f.alpha ELSE eval < f.beta

\* The end of the loop body for a move whose value is eval.  After a cutoff
\* by a non-capture the history cell is read here and written by the next
\* step (the += is not in a critical section).
BT_AfterMove(w, f, b, eval, pvChild) ==
    LET PV == IF Improves(b, f, eval) THEN <<f.move.id>> \o pvChild ELSE f.PV
        bestEval == IF WhiteTurn(b) THEN Max(f.bestEval, eval)
                    ELSE Min(f.bestEval, eval)
        alpha == IF WhiteTurn(b) THEN Max(f.alpha, eval) ELSE f.alpha
        beta == IF WhiteTurn(b) THEN f.beta ELSE Min(f.beta, eval)
        cutoff == beta <= alpha
        last == f.i + 1 >= Len(f.moves)
        g == [f EXCEPT !.PV = PV, !.bestEval = bestEval, !.alpha = alpha,
                 !.beta = beta, !.eval = eval, !.childPV = pvChild]
    IN  /\ killerMoves' = IF cutoff THEN updateKillerMoves(f.move, f.depth)
                          ELSE killerMoves
        /\ IF cutoff /\ ~f.move.cap
           THEN /\ wk' = [wk EXCEPT ![w] =
                    Cont(w, [g EXCEPT !.pc = "history",
                                !.cell = IF WhiteTurn(b)
                                         THEN HistoryAt(whiteHistory, f.move)
                                         ELSE HistoryAt(blackHistory, f.move)],
                         b)]
                /\ UNCHANGED <<lowerBoundTable, upperBoundTable>>
           ELSE IF cutoff \/ last
           THEN /\ wk' = [wk EXCEPT ![w] = Return(w, b, bestEval, PV)]
                /\ StoreBound(b, bestEval, f.depth)
           ELSE /\ wk' = [wk EXCEPT ![w] =
                    Cont(w, [g EXCEPT !.pc = "loop", !.i = f.i + 1], b)]
                /\ UNCHANGED <<lowerBoundTable, upperBoundTable>>

\* Back from the first search of a move: the re-search at full depth, which
\* search.cpp starts with an empty pvChild.
BT_MoveRet(w) ==
    /\ At(w, "bt", "moveRet")
    /\ LET f == Top(w)
           eval == wk[w].ret.val
           pvChild == wk[w].ret.PV
           b == UnmakeMove(wk[w].localBoard, f.move)
           b2 == MakeMove(b, f.move)
       IN  IF Improves(b, f, eval) /\ f.nextDepth < f.depth - 1
           THEN /\ wk' = [wk EXCEPT ![w] =
                    Call(w, [f EXCEPT !.pc = "reRet", !.eval = eval,
                                !.childPV = pvChild], b2,
                         BtFrame(b2, f.depth - 1, f.alpha, f.beta,
                                 IF Version = "cpp" THEN <<>> ELSE pvChild))]
                /\ UNCHANGED <<lowerBoundTable, upperBoundTable, killerMoves>>
           ELSE BT_AfterMove(w, f, b, eval, pvChild)
    /\ UNCHANGED <<negamaxVars, sideVars, arg, board, globalMaxDepth, fb,
                   clock, whiteHistory, blackHistory>>

BT_ReRet(w) ==
    /\ At(w, "bt", "reRet")
    /\ BT_AfterMove(w, Top(w), UnmakeMove(wk[w].localBoard, Top(w).move),
                    wk[w].ret.val, wk[w].ret.PV)
    /\ UNCHANGED <<negamaxVars, sideVars, arg, board, globalMaxDepth, fb,
                   clock, whiteHistory, blackHistory>>

\* The write of the history cell, the break, the table update, the return.
BT_History(w) ==
    /\ At(w, "bt", "history")
    /\ LET f == Top(w)
           b == wk[w].localBoard
           value == f.cell + (IF Version = "cpp"
                              THEN f.depth * f.depth + f.depth - 1
                              ELSE f.depth * f.depth)
       IN  /\ IF WhiteTurn(b)
              THEN /\ whiteHistory' = HistoryStore(whiteHistory, f.move, value)
                   /\ blackHistory' = blackHistory
              ELSE /\ blackHistory' = HistoryStore(blackHistory, f.move, value)
                   /\ whiteHistory' = whiteHistory
           /\ wk' = [wk EXCEPT ![w] = Return(w, b, f.bestEval, f.PV)]
           /\ StoreBound(b, f.bestEval, f.depth)
    /\ UNCHANGED <<negamaxVars, sideVars, arg, board, killerMoves,
                   globalMaxDepth, fb, clock>>

(***************************************************************************)
(* findBestMove of the bound-table versions.  The parallel for has no      *)
(* schedule clause: the runtime splits the indices into one contiguous     *)
(* block per thread (static schedule), and a thread runs its block in      *)
(* order.                                                                  *)
(***************************************************************************)
\* What is left of the block of thread w among the indices of moves.
Pending(w) ==
    LET n == Len(fb.moves)
        q == n \div arg.numThreads
        r == n % arg.numThreads
        first == (w - 1) * q + Min(w - 1, r)
        size == IF w - 1 < r THEN q + 1 ELSE q
    IN  (first..(first + size - 1)) \ fb.taken

WorstEval == IF WhiteTurn(board) THEN -INF ELSE INF

\* The test of both critical sections of the root loop.
NewBest(eval) ==
    IF WhiteTurn(board) THEN eval > fb.currentBestEval
    ELSE eval < fb.currentBestEval

BF_Enter ==
    /\ fb.pc = "bcall"
    /\ whiteHistory' = IF arg.resetHistory THEN << >> ELSE whiteHistory
    /\ blackHistory' = IF arg.resetHistory THEN << >> ELSE blackHistory
    /\ lowerBoundTable' = IF TableTooLarge(lowerBoundTable) THEN << >>
                          ELSE lowerBoundTable
    /\ upperBoundTable' = IF TableTooLarge(upperBoundTable) THEN << >>
                          ELSE upperBoundTable
    /\ fb' = [fb EXCEPT !.pc = "biter", !.depth = BaseDepth,
                 !.bestMove = NoMove, !.bestEval = WorstEval,
                 !.timeLimitExceeded = FALSE, !.moves = <<>>]
    /\ UNCHANGED <<negamaxVars, sideVars, arg, board, killerMoves,
                   globalMaxDepth, wk, clock>>

BF_IterStart ==
    /\ fb.pc = "biter"
    /\ fb.depth <= arg.maxDepth
    /\ globalMaxDepth' = fb.depth
    /\ fb' = [fb EXCEPT !.pc = "bpar", !.currentBestMove = NoMove,
                 !.currentBestEval = WorstEval, !.newMoves = <<>>,
                 !.PV = <<>>, !.taken = {},
                 !.moves = IF fb.depth = BaseDepth
                           THEN prioritizedMoves(board, fb.depth)
                           ELSE fb.moves]
    /\ UNCHANGED <<negamaxVars, sideVars, boundVars, arg, board, killerMoves,
                   wk, clock>>

\* A thread starts the next index of its block.  timeLimitExceeded is read
\* outside any critical section: next to other threads the read may miss a
\* write that was made.  With the flag seen the body is skipped; otherwise
\* the move is made and searched.
BW_Take(w) ==
    /\ fb.pc = "bpar"
    /\ wk[w].stack = <<>>
    /\ Pending(w) # {}
    /\ \E seen \in (IF fb.timeLimitExceeded /\ arg.numThreads > 1 THEN BOOLEAN
                    ELSE {fb.timeLimitExceeded}) :
         LET i == CHOOSE k \in Pending(w) : \A j \in Pending(w) : k <= j
             move == fb.moves[i + 1].move
             b2 == MakeMove(board, move)
             nextDepth == IF Version = "cpp"
                          THEN (IF i <= 6 THEN fb.depth - 1 ELSE fb.depth - 2)
                          ELSE depthReduction(i, fb.depth)
             f == [BlankFrame EXCEPT !.fn = "broot", !.pc = "ret", !.i = i,
                      !.depth = fb.depth, !.move = move,
                      !.nextDepth = nextDepth]
         IN  /\ fb' = [fb EXCEPT !.taken = fb.taken \cup {i}]
             /\ wk' = IF seen THEN wk
                      ELSE [wk EXCEPT ![w] =
                              [stack |-> <<f, BtFrame(b2, nextDepth, -INF, INF,
                                                      <<>>)>>,
                               localBoard |-> b2, ret |-> wk[w].ret]]
    /\ UNCHANGED <<negamaxVars, sideVars, boundVars, arg, board, killerMoves,
                   globalMaxDepth, clock>>

\* Back from the first search: the critical section that sets the flag, and
\* the re-search (in the earlier version only of a reduced move).
BW_Ret(w) ==
    /\ At(w, "broot", "ret")
    /\ LET f == Top(w)
           eval == wk[w].ret.val
           b == UnmakeMove(wk[w].localBoard, f.move)
           b2 == MakeMove(b, f.move)
           newBestFlag == NewBest(eval)
           g == [f EXCEPT !.eval = eval, !.childPV = wk[w].ret.PV,
                    !.newBestFlag = newBestFlag]
       IN  wk' = [wk EXCEPT ![w] =
              IF newBestFlag /\ (Version = "cpp" \/ f.nextDepth < f.depth - 1)
              THEN Call(w, [g EXCEPT !.pc = "reRet"], b2,
                        BtFrame(b2, f.depth - 1, -INF, INF, g.childPV))
              ELSE Cont(w, [g EXCEPT !.pc = "push"], b)]
    /\ UNCHANGED <<negamaxVars, sideVars, boundVars, arg, board, killerMoves,
                   globalMaxDepth, fb, clock>>

BW_ReRet(w) ==
    /\ At(w, "broot", "reRet")
    /\ wk' = [wk EXCEPT ![w] =
              Cont(w, [Top(w) EXCEPT !.pc = "push", !.eval = wk[w].ret.val,
                          !.childPV = wk[w].ret.PV],
                   UnmakeMove(wk[w].localBoard, Top(w).move))]
    /\ UNCHANGED <<negamaxVars, sideVars, boundVars, arg, board, killerMoves,
                   globalMaxDepth, fb, clock>>

\* critical: newMoves.push_back({move, eval})
BW_Push(w) ==
    /\ At(w, "broot", "push")
    /\ fb' = [fb EXCEPT !.newMoves = Append(fb.newMoves,
                                            Pair(Top(w).move, Top(w).eval))]
    /\ wk' = [wk EXCEPT ![w] =
                Cont(w, [Top(w) EXCEPT !.pc = "best"], wk[w].localBoard)]
    /\ UNCHANGED <<negamaxVars, sideVars, boundVars, arg, board, killerMoves,
                   globalMaxDepth, clock>>

\* critical: the update of currentBestEval / currentBestMove / PV.  In
\* search.cpp the loop body ends here; the earlier version goes on to read
\* the clock.
BW_Best(w) ==
    /\ At(w, "broot", "best")
    /\ LET f == Top(w)
       IN  fb' = IF NewBest(f.eval)
                 THEN [fb EXCEPT !.currentBestEval = f.eval,
                          !.currentBestMove = f.move.id,
                          !.PV = <<f.move.id>> \o f.childPV]
                 ELSE fb
    /\ wk' = [wk EXCEPT ![w] =
                IF Version = "cpp" THEN [wk[w] EXCEPT !.stack = <<>>]
                ELSE Cont(w, [Top(w) EXCEPT !.pc = "poll"], wk[w].localBoard)]
    /\ UNCHANGED <<negamaxVars, sideVars, boundVars, arg, board, killerMoves,
                   globalMaxDepth, clock>>

\* The earlier version: the time check at the end of the loop body.
BW_Poll(w) ==
    /\ At(w, "broot", "poll")
    /\ \E t \in clock..1 :
         /\ clock' = t
         /\ fb' = IF t >= 1 THEN [fb EXCEPT !.timeLimitExceeded = TRUE] ELSE fb
    /\ wk' = [wk EXCEPT ![w] = [wk[w] EXCEPT !.stack = <<>>]]
    /\ UNCHANGED <<negamaxVars, sideVars, boundVars, arg, board, killerMoves,
                   globalMaxDepth>>

\* After the parallel region: bestMove, the sort of newMoves, moves, and the
\* time check that ends the depth loop.
BF_IterEnd ==
    /\ fb.pc = "bpar"
    /\ fb.taken = 0..(Len(fb.moves) - 1)
    /\ \A w \in Workers : wk[w].stack = <<>>
    /\ \E t \in clock..1 :
         /\ clock' = t
         /\ fb' = [fb EXCEPT
               !.bestMove = fb.currentBestMove,
               !.bestEval = fb.currentBestEval,
               !.moves = IF WhiteTurn(board) THEN SortDesc(fb.newMoves)
                         ELSE SortAsc(fb.newMoves),
               !.fullBest = IF Len(fb.newMoves) = Len(fb.moves)
                            THEN fb.fullBest \cup {fb.currentBestMove}
                            ELSE fb.fullBest,
               !.pc = IF t >= 1 THEN "bexit" ELSE "biter",
               !.depth = IF t >= 1 THEN fb.depth ELSE fb.depth + 1]
    /\ UNCHANGED <<negamaxVars, sideVars, boundVars, arg, board, killerMoves,
                   globalMaxDepth, wk>>

\* The depth loop is left: return bestMove.
BF_Exit ==
    /\ \/ fb.pc = "bexit"
       \/ fb.pc = "biter" /\ fb.depth > arg.maxDepth
    /\ fb' = [fb EXCEPT !.pc = "done", !.result = fb.bestMove]
    /\ UNCHANGED <<negamaxVars, sideVars, boundVars, arg, board, killerMoves,
                   globalMaxDepth, wk, clock>>

(***************************************************************************)
(* The transposition store on its own: writes and lookups as the searches  *)
(* make them (table[hash] = {eval, depth}; transTableLookUp), on the table *)
(* of the negamax version and on the two bound tables.                     *)
(***************************************************************************)
NoProbe == [table |-> "none", hash |-> <<>>, depth |-> 0, found |-> FALSE,
            eval |-> 0]

TT_Store(name, hash, eval, depth) ==
    /\ Len(written) < MaxWrites
    /\ transpositionTable' =
         IF name = "transpositionTable"
         THEN TableStore(transpositionTable, hash, eval, depth)
         ELSE transpositionTable
    /\ lowerBoundTable' =
         IF name = "lowerBoundTable"
         THEN TableStore(lowerBoundTable, hash, eval, depth)
         ELSE lowerBoundTable
    /\ upperBoundTable' =
         IF name = "upperBoundTable"
         THEN TableStore(upperBoundTable, hash, eval, depth)
         ELSE upperBoundTable
    /\ written' = Append(written, [table |-> name, hash |-> hash,
                                   eval |-> eval, depth |-> depth])
    /\ probe' = NoProbe
    /\ UNCHANGED <<arg, board, otherEntries, hashMoveTable, killerMoves,
                   nodeCount, previousPV, globalMaxDepth, mopUp, fb, wk,
                   clock, obs, mates, whiteHistory, blackHistory, inside, uci>>

TT_LookUp(name, hash, depth) ==
    /\ LET look == IF name = "transpositionTable"
                   THEN transTableLookUp(hash, depth)
                   ELSE IF name = "lowerBoundTable"
                   THEN transTableLookUpIn(lowerBoundTable, hash, depth)
                   ELSE transTableLookUpIn(upperBoundTable, hash, depth)
       IN  probe' = [table |-> name, hash |-> hash, depth |-> depth,
                     found |-> look.found, eval |-> look.eval]
    /\ UNCHANGED <<boundVars, written, inside, uci, arg, board, otherEntries,
                   transpositionTable, hashMoveTable, killerMoves, nodeCount,
                   previousPV, globalMaxDepth, mopUp, fb, wk, clock, obs,
                   mates>>

(***************************************************************************)
(* The accesses the threads of the parallel loop make to the shared data   *)
(* of the negamax version.  An access takes time: a thread is inside it     *)
(* from CS_Enter to CS_Leave.  All the critical constructs are unnamed, so  *)
(* they exclude one another.                                                *)
(***************************************************************************)
NoAccess == [site |-> "none", data |-> {}, write |-> FALSE]

Accesses ==
    { \* quiescence: nodeCount++
      [site |-> "quiescence: nodeCount++", data |-> {"nodeCount"},
       write |-> TRUE],
      \* alphaBeta: nodeCount++
      [site |-> "alphaBeta: nodeCount++", data |-> {"nodeCount"},
       write |-> TRUE],
      \* alphaBeta: transTableLookUp
      [site |-> "alphaBeta: transTableLookUp",
       data |-> {"transpositionTable"}, write |-> FALSE],
      \* alphaBeta: transpositionTable[hash] = {quiescenceEval, 0}
      [site |-> "alphaBeta: leaf", data |-> {"transpositionTable"},
       write |-> TRUE],
      \* alphaBeta: transpositionTable[...] = ..., hashMoveTable[...] = PV[0]
      [site |-> "alphaBeta: update hash tables",
       data |-> {"transpositionTable", "hashMoveTable"}, write |-> TRUE],
      \* updateKillerMoves
      [site |-> "updateKillerMoves", data |-> {"killerMoves"},
       write |-> TRUE],
      \* findBestMove: eval > currentBestEval
      [site |-> "findBestMove: newBestFlag", data |-> {"currentBest"},
       write |-> FALSE],
      \* findBestMove: newMoves.push_back
      [site |-> "findBestMove: push_back", data |-> {"newMoves"},
       write |-> TRUE],
      \* findBestMove: currentBestEval, currentBestMove, PV
      [site |-> "findBestMove: best", data |-> {"currentBest"},
       write |-> TRUE],
      \* orderedMoves: hashMoveTable.count(hash), hashMoveTable[hash]
      [site |-> "orderedMoves: hashMoveTable", data |-> {"hashMoveTable"},
       write |-> FALSE],
      \* orderedMoves: previousPV[ply]
      [site |-> "orderedMoves: previousPV", data |-> {"previousPV"},
       write |-> FALSE],
      \* orderedMoves: std::find(killerMoves[depth] ...)
      [site |-> "orderedMoves: killerMoves", data |-> {"killerMoves"},
       write |-> FALSE],
      \* lateMoveReduction: mopUp
      [site |-> "lateMoveReduction: mopUp", data |-> {"mopUp"},
       write |-> FALSE] }

\* The same with updateKillerMoves writing outside a critical construct.
OmpCriticalButKillers(site) ==
    site \in {"quiescence: nodeCount++", "alphaBeta: nodeCount++",
              "alphaBeta: transTableLookUp", "alphaBeta: leaf",
              "alphaBeta: update hash tables",
              "findBestMove: newBestFlag", "findBestMove: push_back",
              "findBestMove: best"}

\* Is the access under #pragma omp critical?
OmpCritical(site) ==
    site \in {"quiescence: nodeCount++", "alphaBeta: nodeCount++",
              "alphaBeta: transTableLookUp", "alphaBeta: leaf",
              "alphaBeta: update hash tables", "updateKillerMoves",
              "findBestMove: newBestFlag", "findBestMove: push_back",
              "findBestMove: best"}

CS_Enter(w, a) ==
    /\ inside[w] = NoAccess
    /\ OmpCritical(a.site) =>
           \A v \in Workers \ {w} : ~OmpCritical(inside[v].site)
    /\ inside' = [inside EXCEPT ![w] = a]
    /\ UNCHANGED <<boundVars, probe, written, uci, arg, board, otherEntries,
                   transpositionTable, hashMoveTable, killerMoves, nodeCount,
                   previousPV, globalMaxDepth, mopUp, fb, wk, clock, obs,
                   mates>>

CS_Leave(w) ==
    /\ inside[w] # NoAccess
    /\ inside' = [inside EXCEPT ![w] = NoAccess]
    /\ UNCHANGED <<boundVars, probe, written, uci, arg, board, otherEntries,
                   transpositionTable, hashMoveTable, killerMoves, nodeCount,
                   previousPV, globalMaxDepth, mopUp, fb, wk, clock, obs,
                   mates>>

(***************************************************************************)
(* The games findBestMove is called on.                                    *)
(***************************************************************************)
World(side, nodes, dflt, bare) ==
    [side |-> side, nodes |-> nodes, dflt |-> dflt, bare |-> bare,
     same |-> << >>]

\* Beyond the listed positions: one quiet move and one pawn-takes-pawn.
Deep(ev) == Nd(<<Quiet(1), Capture(2, 1, 1)>>, "NONE", ev, FALSE, FALSE)

\* A leaf of the listed positions with no capture.
Calm(ev) == Nd(<<Quiet(1)>>, "NONE", ev, FALSE, FALSE)

Mated == Nd(<<>>, "CHECKMATE", 0, TRUE, FALSE)

Stale == Nd(<<>>, "STALEMATE", 0, FALSE, FALSE)

Sides == {"W", "B"}

\* Two root moves, two replies each, values a, b, c, d at the four leaves.
Lines(side, a, b, c, d) ==
    World(side,
      [p \in {<<>>, <<1>>, <<2>>, <<1, 1>>, <<1, 2>>, <<2, 1>>, <<2, 2>>} |->
         IF Len(p) < 2
         THEN Nd(<<Quiet(1), Quiet(2)>>, "NONE", 0, FALSE, FALSE)
         ELSE Calm(IF p = <<1, 1>> THEN a ELSE IF p = <<1, 2>> THEN b
                   ELSE IF p = <<2, 1>> THEN c ELSE d)],
      Deep(0), FALSE)

\* A root that is already over: no legal move.
Over(side, node) == World(side, [p \in {<<>>} |-> node], Deep(0), FALSE)

\* The side to move is ahead by ev; its second move walks into a mate.
MateTrap(side, ev, bare) ==
    World(side,
      [p \in {<<>>, <<2>>, <<2, 1>>} |->
         IF p = <<>> THEN Nd(<<Quiet(1), Threat(2)>>, "NONE",
                             IF side = "W" THEN ev ELSE -ev, FALSE, FALSE)
         ELSE IF p = <<2>> THEN Nd(<<Quiet(1)>>, "NONE", 0, FALSE, FALSE)
         ELSE Mated],
      Calm(IF side = "W" THEN ev ELSE -ev), bare)

\* The side to move mates at once with its first move or later with its
\* second (a check, a forced reply, mate).
Mates(side) ==
    World(side,
      [p \in {<<>>, <<1>>, <<2>>, <<2, 1>>, <<2, 1, 1>>} |->
         IF p = <<>> THEN Nd(<<Quiet(1), Quiet(2)>>, "NONE", 0, FALSE, FALSE)
         ELSE IF p = <<1>> THEN Mated
         ELSE IF p = <<2>> THEN Nd(<<Quiet(1)>>, "NONE", 0, TRUE, FALSE)
         ELSE IF p = <<2, 1>> THEN Nd(<<Quiet(1)>>, "NONE", 0, FALSE, FALSE)
         ELSE Mated],
      Calm(0), FALSE)

\* The first move mates at once; the second, a mate-threat move, is
\* answered by mate.
TwoMates(side) ==
    World(side,
      [p \in {<<>>, <<1>>, <<2>>, <<2, 1>>} |->
         IF p = <<>> THEN Nd(<<Quiet(1), Threat(2)>>, "NONE", 0, FALSE, FALSE)
         ELSE IF p = <<2>> THEN Nd(<<Quiet(1)>>, "NONE", 0, FALSE, FALSE)
         ELSE Mated],
      Calm(0), FALSE)

\* Captures and a queen promotion at the root, a single reply below.
Tactics(side, ev) ==
    World(side,
      [p \in {<<>>, <<1>>, <<3>>} |->
         IF p = <<>>
         THEN Nd(<<Quiet(1), Capture(2, 1, 5), Capture(3, 5, 1),
                   Mv(4, FALSE, 0, 1, TRUE, FALSE, TRUE, FALSE)>>,
                 "NONE", ev, FALSE, FALSE)
         ELSE IF p = <<1>> THEN Stale
         ELSE Nd(<<Capture(1, 1, 5)>>, "NONE", -ev, TRUE, TRUE)],
      Deep(ev), FALSE)

\* Four quiet root moves with forced lines below them; the line of the
\* fourth move looks worst three plies deep, the other three turn bad at
\* the fourth ply.
Late(side) ==
    World(side,
      [p \in {<<>>} \cup {<<k>> \o SubSeq(<<1, 1, 1>>, 1, n) :
                              k \in 1..4, n \in 0..3} |->
         IF p = <<>>
         THEN Nd(<<Quiet(1), Quiet(2), Quiet(3), Quiet(4)>>, "NONE", 0,
                 FALSE, FALSE)
         ELSE Calm((IF side = "W" THEN 1 ELSE -1)
                   * (IF Len(p) < 4 THEN 40 - 10 * p[1]
                      ELSE IF p[1] = 4 THEN 0 ELSE -100))],
      Calm(0), FALSE)

\* Two move orders reach one position three plies deep: 1, 1, 2 and
\* 2, 1, 1.  Black has a second reply to the first root move, which looks
\* worth a to White and one ply later is worth y; the shared position is
\* worth p and Black has a capture in it, after which the game is worth e;
\* the position before it on the second line is worth c.
Transposed(a, y, p, c, e) ==
    [World("W",
       [b \in {<<>>, <<1>>, <<2>>, <<1, 1>>, <<1, 2>>, <<2, 1>>, <<1, 1, 2>>,
               <<1, 2, 1>>, <<2, 1, 1>>} |->
          IF b = <<>> THEN Nd(<<Quiet(1), Quiet(2)>>, "NONE", 0, FALSE, FALSE)
          ELSE IF b = <<1>>
          THEN Nd(<<Quiet(2), Quiet(1)>>, "NONE", 0, FALSE, FALSE)
          ELSE IF b = <<1, 1>> THEN Nd(<<Quiet(2)>>, "NONE", a, FALSE, FALSE)
          ELSE IF b = <<1, 2>> THEN Calm(a)
          ELSE IF b = <<2, 1>> THEN Calm(c)
          ELSE IF b = <<1, 2, 1>> THEN Calm(y)
          ELSE IF Len(b) = 3
          THEN Nd(<<Capture(1, 1, 1)>>, "NONE", p, FALSE, FALSE)
          ELSE Calm(0)],
       Calm(e), FALSE) EXCEPT !.same = (<<2, 1, 1>> :> <<1, 1, 2>>)]

\* Two quiet root moves; the reply to the first is a choice of two quiet
\* moves and a pawn-takes-pawn, generated in that order; the capture
\* leaves White 100 ahead, every other line is worth e.
Crowded(e) ==
    World("W",
      [p \in {<<>>, <<1>>, <<1, 3>>} |->
         IF p = <<>>
         THEN Nd(<<Quiet(1), Quiet(2)>>, "NONE", 0, FALSE, FALSE)
         ELSE IF p = <<1>>
         THEN Nd(<<Quiet(1), Quiet(2), Capture(3, 1, 1)>>, "NONE", 0,
                 FALSE, FALSE)
         ELSE Calm(100)],
      Calm(e), FALSE)

Worlds ==
    {Lines("W", a, 0, c, 40) : a \in {-300, 0, 40, 300},
                               c \in {-300, 0, 40, 300}}
    \cup {Over(sd, n) : sd \in Sides, n \in {Mated, Stale}}
    \cup {MateTrap(sd, ev, bare) : sd \in Sides, ev \in {0, 2300},
                                   bare \in BOOLEAN}
    \cup {Mates(sd) : sd \in Sides}
    \cup {TwoMates(sd) : sd \in Sides}
    \cup {Tactics(sd, ev) : sd \in Sides, ev \in {-200, 200}}
    \cup {Late(sd) : sd \in Sides}

NoWorker == [stack |-> <<>>, localBoard |-> <<>>,
             ret |-> [val |-> 0, PV |-> <<>>]]

InitFb ==
    [pc |-> "call", depth |-> 0, bestMove |-> NoMove, bestEval |-> 0,
     timeLimitExceeded |-> FALSE, moves |-> <<>>, evals |-> << >>,
     color |-> 0, currentBestMove |-> NoMove, currentBestEval |-> 0,
     newMoves |-> <<>>, PV |-> <<>>, next |-> 0, result |-> NoMove,
     taken |-> {}, fullBest |-> {}, calls |-> 1]

(***************************************************************************)
(* The protocol layer (pig_engine.cpp).  A line of input is the characters *)
(* before its first blank (word) and the blank-separated tokens after it   *)
(* (rest); a line of output is its fixed text and, for a bestmove line,    *)
(* the characters of the move.  The Board is the position it was           *)
(* constructed from and the moves made on it since.                        *)
(***************************************************************************)
NewBoard(fen) == [fen |-> fen, moves |-> <<>>]

\* processPosition: the first token is skipped unread.
processPosition(b, rest) ==
    LET MakeMoves(start, tokens) ==
            [start EXCEPT !.moves = start.moves \o tokens]
        IsMoves(token) == token = "moves"
        NotMoves(token) == token # "moves"
        \* the tokens after "fen" up to "moves" or the end of the line
        args == SubSeq(rest, 2, Len(rest))
        cut == IF SelectSeq(args, IsMoves) = <<>> THEN Len(args) + 1
               ELSE CHOOSE k \in 1..Len(args) :
                        /\ args[k] = "moves"
                        /\ SelectSeq(SubSeq(args, 1, k - 1), IsMoves) = <<>>
    IN  IF rest = <<>> THEN b
        ELSE IF rest[1] = "startpos"
        THEN IF Len(rest) >= 2 /\ rest[2] = "moves"
             THEN MakeMoves(NewBoard(<<"startpos">>),
                            SubSeq(rest, 3, Len(rest)))
             ELSE NewBoard(<<"startpos">>)
        ELSE IF rest[1] = "fen"
        THEN MakeMoves(NewBoard(SubSeq(args, 1, cut - 1)),
                       SubSeq(args, cut + 1, Len(args)))
        ELSE b

\* processGo: what it prints for the move findBestMove returned.  A move is
\* the number 64 * from + to of its squares, a square the number
\* 8 * rank + file counted from 0 (a1 = 0, h8 = 63); NoMove is 0.
processGo(bestMove) ==
    LET files == <<"a", "b", "c", "d", "e", "f", "g", "h">>
        ranks == <<"1", "2", "3", "4", "5", "6", "7", "8">>
        square(sq) == <<files[(sq % 8) + 1], ranks[(sq \div 8) + 1]>>
        moveToUci(m) == square(m \div 64) \o square(m % 64)
    IN  IF bestMove # NoMove
        THEN [text |-> "bestmove", move |-> moveToUci(bestMove)]
        ELSE [text |-> "bestmove", move |-> <<"0", "0", "0", "0">>]

\* The lines std::getline delivers.
UciLines ==
    LET position == <<"p", "o", "s", "i", "t", "i", "o", "n">>
        go == <<"g", "o">>
        Line(word, rest) == [word |-> word, rest |-> rest]
    IN  {Line(<<"u", "c", "i">>, <<>>),
         Line(<<"i", "s", "r", "e", "a", "d", "y">>, <<>>),
         Line(<<"u", "c", "i", "n", "e", "w", "g", "a", "m", "e">>, <<>>),
         Line(<<"q", "u", "i", "t">>, <<>>),
         Line(<<"s", "t", "o", "p">>, <<>>),
         Line(<<"d", "e", "b", "u", "g">>, <<"on">>),
         Line(go, <<>>),
         Line(go, <<"depth", "3">>),
         Line(go \o <<"a", "t">>, <<>>),
         Line(position, <<"startpos">>),
         Line(position, <<"startpos", "moves", "e2e4">>),
         Line(position, <<"fen", "8/8/8/8/8/5k2/8/5K1q", "w", "-", "-", "0",
                          "1">>),
         Line(position, <<"fen", "8/8/8/8/8/5k2/8/5K1q", "w", "-", "-", "0",
                          "1", "moves", "f1e1">>),
         Line(position \o <<"s">>, <<"startpos">>)}

\* One pass of the loop of uciLoop: a line is read and acted on.  The search
\* that processGo starts is taken by the move it returns.
uciLoop ==
    /\ uci.reading
    /\ uci.n < MaxCommands
    /\ \E line \in UciLines,
          bestMove \in {NoMove, 64 * 12 + 28, 64 * 62 + 45} :
          LET Is(word) == line.word = word /\ line.rest = <<>>
              \* line.find(word) == 0
              StartsWith(word) ==
                  /\ Len(line.word) >= Len(word)
                  /\ SubSeq(line.word, 1, Len(word)) = word
              Say(text) == [text |-> text, move |-> <<>>]
              read == [uci EXCEPT !.line = line, !.n = uci.n + 1]
          IN  uci' =
                IF Is(<<"u", "c", "i">>)
                THEN [read EXCEPT !.out = uci.out \o
                        <<Say("Engine's name: "), Say("Author:"),
                          Say("uciok")>>]
                ELSE IF Is(<<"i", "s", "r", "e", "a", "d", "y">>)
                THEN [read EXCEPT !.out = Append(uci.out, Say("readyok"))]
                ELSE IF Is(<<"u", "c", "i", "n", "e", "w", "g", "a", "m",
                             "e">>)
                THEN [read EXCEPT !.board = NewBoard(<<"startpos">>)]
                ELSE IF StartsWith(<<"p", "o", "s", "i", "t", "i", "o",
                                     "n">>)
                THEN [read EXCEPT
                        !.board = processPosition(uci.board, line.rest)]
                ELSE IF StartsWith(<<"g", "o">>)
                THEN [read EXCEPT !.out = Append(uci.out, processGo(bestMove)),
                                  !.bestMove = bestMove]
                ELSE IF Is(<<"q", "u", "i", "t">>)
                THEN [read EXCEPT !.reading = FALSE]
                ELSE read
    /\ UNCHANGED <<boundVars, probe, written, inside, arg, board,
                   otherEntries, transpositionTable, hashMoveTable,
                   killerMoves, nodeCount, previousPV, globalMaxDepth, mopUp,
                   fb, wk, clock, obs, mates>>

\* The globals as the program starts.
InitGlobals ==
    /\ board = <<>>
    /\ transpositionTable = << >>
    /\ hashMoveTable = << >>
    /\ killerMoves = << >>
    /\ nodeCount = 0
    /\ previousPV = <<>>
    /\ globalMaxDepth = 0
    /\ mopUp = FALSE
    /\ wk = [w \in 1..arg.numThreads |-> NoWorker]
    /\ clock = 0
    /\ obs = [fn |-> "none", kind |-> "none", val |-> 0, depth |-> 0,
              alpha |-> 0, beta |-> 0, pos |-> <<>>, side |-> "W",
              entry |-> BlankFrame.entry]
    /\ mates = {}
    /\ lowerBoundTable = << >>
    /\ upperBoundTable = << >>
    /\ whiteHistory = << >>
    /\ blackHistory = << >>
    /\ probe = NoProbe
    /\ written = <<>>
    /\ inside = [w \in Workers |-> NoAccess]
    /\ uci = [board |-> NewBoard(<<"startpos">>), out |-> <<>>,
              reading |-> TRUE, n |-> 0,
              line |-> [word |-> <<>>, rest |-> <<>>], bestMove |-> NoMove]

\* A call findBestMove(board, numThreads, maxDepth, quiescenceDepth,
\* timeLimit) of the negamax version.
InitCall(worlds, threads, depths) ==
    /\ arg \in [world : worlds, numThreads : threads, maxDepth : depths,
                quiescenceDepth : 0..MaxQDepth]
    /\ otherEntries \in {0, maxTableSize - Headroom}
    /\ fb = InitFb
    /\ InitGlobals

\* One thread on every game, MaxThreads threads on the small ones; the
\* games with two move orders to one position are searched to the ply
\* where the orders meet, with a capture search of MaxExchange plies, and
\* so are the games with a crowded reply; one game of forced lines is
\* searched a ply beyond the depth from which the scores are compared.
Init ==
    \/ InitCall(Worlds, {1}, 1..MaxDepthBound)
    \/ InitCall({Late("W")}, {1}, {MaxDepthBound + 1})
    \/ /\ arg \in [world : {Transposed(a, -100, 40, 100, 40) :
                                a \in {0, 300}}
                            \cup {Crowded(e) : e \in {0, 40}},
                     numThreads : {1}, maxDepth : {3},
                     quiescenceDepth : {MaxExchange}]
       /\ otherEntries = 0
       /\ fb = InitFb
       /\ InitGlobals
    \/ InitCall({Lines("W", 40, 0, c, 40) : c \in {-300, 300}}
                \cup {Over("B", Mated), Mates("W")}, {MaxThreads}, 1..2)

Next ==
    \/ FB_Enter
    \/ FB_IterStart
    \/ FB_IterEnd
    \/ FB_Exit
    \/ \E w \in Workers : W_Take(w)
    \/ \E w \in Workers : W_AspCall(w)
    \/ \E w \in Workers : W_AspRet(w)
    \/ \E w \in Workers : W_Flag(w)
    \/ \E w \in Workers : W_RootReRet(w)
    \/ \E w \in Workers : W_Push(w)
    \/ \E w \in Workers : W_Best(w)
    \/ \E w \in Workers : AB_GameOver(w)
    \/ \E w \in Workers : AB_TTHit(w)
    \/ \E w \in Workers : AB_Leaf(w)
    \/ \E w \in Workers : AB_Node(w)
    \/ \E w \in Workers : AB_QRet(w)
    \/ \E w \in Workers : AB_NullRet(w)
    \/ \E w \in Workers : AB_MoveCall(w)
    \/ \E w \in Workers : AB_MoveRet(w)
    \/ \E w \in Workers : AB_ReRet(w)
    \/ \E w \in Workers : Q_Start(w)
    \/ \E w \in Workers : Q_MoveCall(w)
    \/ \E w \in Workers : Q_MoveRet(w)

Spec == Init /\ [][Next]_vars

\* The caller calls findBestMove again, on another position: the locals
\* start afresh, the globals are what the call before left.  The entries
\* that call left in the tables are of positions that do not occur in the
\* new game; they count for the size of the table only.
FB_Call ==
    /\ fb.pc = "done"
    /\ fb.calls < MaxCalls
    /\ arg' \in [world : {MateTrap("W", 0, bare) : bare \in BOOLEAN},
                 numThreads : {arg.numThreads}, maxDepth : {1},
                 quiescenceDepth : {0}]
    /\ board' = <<>>
    /\ otherEntries' = TableSize
    /\ transpositionTable' = << >>
    /\ hashMoveTable' = << >>
    /\ fb' = [InitFb EXCEPT !.calls = fb.calls + 1]
    /\ wk' = [w \in Workers |-> NoWorker]
    /\ clock' = 0
    /\ mates' = {}
    /\ UNCHANGED <<boundVars, sideVars, killerMoves, nodeCount, previousPV,
                   globalMaxDepth, mopUp, obs>>

\* The threads of the parallel loop and their accesses to the shared data.
InitCritical == InitCall({Mates("W")}, {MaxThreads}, {1})

NextCritical ==
    \/ \E w \in Workers, a \in Accesses : CS_Enter(w, a)
    \/ \E w \in Workers : CS_Leave(w)

SpecCritical == InitCritical /\ [][NextCritical]_vars

\* findBestMove called up to MaxCalls times in a row.
SpecCalls == Init /\ [][Next \/ FB_Call]_vars

\* The same machine with the scheduling the runtime provides: a thread that
\* can take a step eventually takes one.
SpecFair == Init /\ [][Next]_vars /\ WF_vars(Next)

(***************************************************************************)
(* The bound-table versions and the transposition store as machines.       *)
(***************************************************************************)
\* One root move into a position with MaxMoves captures; each of them
\* leaves the capturing side a little ahead when looked at statically.
\* CapturePairs: victim and attacker of the captures in decreasing order of
\* victim value - attacker value, all different.
Wide(side) ==
    LET CapturePairs ==
        <<<<5, 1>>, <<5, 2>>, <<5, 3>>, <<4, 1>>, <<3, 1>>, <<2, 1>>, <<4, 2>>,
          <<4, 3>>, <<3, 2>>, <<1, 1>>, <<2, 3>>, <<3, 4>>, <<2, 4>>, <<1, 2>>,
          <<1, 3>>, <<1, 4>>, <<3, 5>>, <<2, 5>>, <<1, 5>>, <<5, 6>>, <<4, 6>>,
          <<3, 6>>, <<2, 6>>, <<1, 6>>>>
    IN
    World(side,
      [p \in {<<>>, <<1>>} \cup {<<1, k>> : k \in 1..MaxMoves} |->
         IF p = <<>> THEN Calm(0)
         ELSE IF p = <<1>>
         THEN Nd([k \in 1..MaxMoves |->
                    Capture(k, CapturePairs[k][1], CapturePairs[k][2])],
                 "NONE", 0, FALSE, FALSE)
         ELSE Calm(IF side = "W" THEN -10 ELSE 10)],
      Calm(0), FALSE)

\* Two moves everywhere: a knight move and a pawn-takes-pawn; the static
\* value swings with the side that moved last.
Fork(side, swing) ==
    World(side,
      [p \in {<<>>} |->
         Nd(<<Quiet(1), Capture(2, 1, 1)>>, "NONE", swing, FALSE, FALSE)],
      Nd(<<[Quiet(1) EXCEPT !.att = 2, !.threat = 1], Capture(2, 1, 1)>>,
         "NONE", -swing, FALSE, FALSE),
      FALSE)

\* A call findBestMove(board, numThreads, maxDepth, quiescenceDepth,
\* timeLimit, debug, resetHistory) of a bound-table version.
InitBound(versions, worlds, threads, depths) ==
    /\ arg \in [version : versions, world : worlds, numThreads : threads,
                maxDepth : depths, quiescenceDepth : 0..MaxQDepth,
                resetHistory : BOOLEAN]
    /\ otherEntries = 0
    /\ fb = [InitFb EXCEPT !.pc = "bcall"]
    /\ InitGlobals

InitBoundTable ==
    LET BoundWorlds ==
            {Wide(sd) : sd \in Sides}
            \cup {Fork(sd, v) : sd \in {"W"}, v \in {0, 40}}
            \cup {Lines(sd, a, 0, c, 40) : sd \in Sides, a \in {-300, 40},
                                           c \in {0, 300}}
            \cup {Late(sd) : sd \in Sides}
            \cup {Over(sd, n) : sd \in Sides, n \in {Mated, Stale}}
            \cup {Mates(sd) : sd \in Sides}
    IN
    \/ InitBound({"cpp"}, BoundWorlds, {1}, 4..MaxBoundDepth)
    \/ InitBound({"earlier"}, BoundWorlds, {1}, 1..MaxBoundDepth)
    \/ InitBound({"cpp"}, {Late(sd) : sd \in Sides}, {1},
                 {MaxBoundDepth + 2})
    \/ InitBound({"cpp", "earlier"}, {Lines("W", 40, 0, 300, 40)},
                 {MaxThreads}, {4})

NextBoundTable ==
    \/ BF_Enter
    \/ BF_IterStart
    \/ BF_IterEnd
    \/ BF_Exit
    \/ \E w \in Workers : BW_Take(w)
    \/ \E w \in Workers : BW_Ret(w)
    \/ \E w \in Workers : BW_ReRet(w)
    \/ \E w \in Workers : BW_Push(w)
    \/ \E w \in Workers : BW_Best(w)
    \/ \E w \in Workers : BW_Poll(w)
    \/ \E w \in Workers : BT_Enter(w)
    \/ \E w \in Workers : BT_NullRet(w)
    \/ \E w \in Workers : BT_MoveCall(w)
    \/ \E w \in Workers : BT_MoveRet(w)
    \/ \E w \in Workers : BT_ReRet(w)
    \/ \E w \in Workers : BT_History(w)

SpecBoundTable == InitBoundTable /\ [][NextBoundTable]_vars

InitStore ==
    /\ arg = [world |-> Over("W", Stale), numThreads |-> 1, maxDepth |-> 1,
              quiescenceDepth |-> 0]
    /\ otherEntries = 0
    /\ fb = InitFb
    /\ InitGlobals

NextStore ==
    \/ \E name \in {"transpositionTable", "lowerBoundTable",
                     "upperBoundTable"},
          hash \in {<<>>, <<1>>}, eval \in {-50, 70},
          depth \in 0..MaxStoreDepth : TT_Store(name, hash, eval, depth)
    \/ \E name \in {"transpositionTable", "lowerBoundTable",
                     "upperBoundTable"},
          hash \in {<<>>, <<1>>}, depth \in 0..MaxStoreDepth :
          TT_LookUp(name, hash, depth)

SpecStore == InitStore /\ [][NextStore]_vars

\* The protocol layer on its own.
SpecUci == InitStore /\ [][uciLoop]_vars

(***************************************************************************)
(* Properties.                                                             *)
(***************************************************************************)
Done == fb.pc = "done"

RootMoveIds == {LegalMoves(board)[k].id : k \in 1..Len(LegalMoves(board))}

Nested(w, k, fn) ==
    /\ k \in 2..Len(wk[w].stack)
    /\ wk[w].stack[k - 1].fn = fn
    /\ wk[w].stack[k].fn = fn

Budget(f) == f.entry.depth + f.entry.extension

\* Twelve doublings of the initial window exceed twice INF.
MaxWindow == InitialWindow * 4096

C2_Progress ==
    /\ \A w \in Workers : \A k \in 1..Len(wk[w].stack) :
         LET f == wk[w].stack[k]
         IN  /\ Nested(w, k, "ab") =>
                  /\ Budget(f) < Budget(wk[w].stack[k - 1])
                  /\ f.entry.depth >= 0
                  /\ f.entry.extension >= 0
             /\ Nested(w, k, "q") =>
                  /\ f.entry.depth < wk[w].stack[k - 1].entry.depth
                  /\ f.entry.depth >= 0
             /\ f.fn = "root" =>
                  /\ f.windowLeft <= MaxWindow
                  /\ f.windowRight <= MaxWindow
    /\ fb.pc \in {"iter", "par", "exit"} => fb.depth <= arg.maxDepth + 1
    /\ fb.pc = "par" => fb.depth <= arg.maxDepth

\* C2: findBestMove always returns: along every chain of recursive alphaBeta
\* calls depth + extension budget strictly decreases and stays non-negative,
\* quiescence strictly decreases its depth, the aspiration windows stop
\* widening after finitely many doublings, the depth loop never goes beyond
\* maxDepth, and every run reaches the return.
C2_AlwaysReturns == []C2_Progress /\ <>Done

C2_Witness ==
    /\ Done
    /\ globalMaxDepth >= 3
    /\ \E h \in DOMAIN transpositionTable : Len(h) >= 3

\* C3: whichever findBestMove ran, the move it returns is the best move of
\* an iteration in which every root move was searched; a time limit that
\* expires part-way through an iteration never makes the best move of the
\* partly searched iteration the result.
C3_ReturnsBestOfFullIteration == Done => fb.result \in fb.fullBest

MateValue(depth) == (INF \div 2) - (1000 - depth)

\* C4: alphaBeta called on a position in which the side to move is
\* checkmated returns -(INF/2 - (1000 - depth)), whether that side is White
\* or Black; every other game-over result returns 0.
C4_MatedSideScoresNegative ==
    /\ obs.kind = "mate" => obs.val = -MateValue(obs.depth)
    /\ obs.kind = "draw" => obs.val = 0

\* C5: within one iteration from a root, a checkmate met fewer plies from the
\* root has a score of strictly larger magnitude than one met more plies
\* from the root.
C5_ShallowerMateLarger ==
    \A m1 \in mates : \A m2 \in mates : m1.ply < m2.ply => m1.mag > m2.mag

InRange(score) == -INF < score /\ score < INF

\* C6: every score returned by quiescence or alphaBeta, recorded as a root
\* move's eval or written into the transposition table lies strictly between
\* -INF and +INF.
C6_ScoresInRange ==
    /\ obs.fn \in {"ab", "q"} => InRange(obs.val)
    /\ \A k \in 1..Len(fb.newMoves) : InRange(fb.newMoves[k].second)
    /\ \A h \in DOMAIN transpositionTable :
          InRange(transpositionTable[h].eval)

\* C7: every call of alphaBeta and of quiescence returns with the board in
\* the position (hash, side to move) it had at entry; a root worker holds the
\* root position between its searches, and the caller's board is never
\* changed.
C7_BoardRestored ==
    /\ obs.fn \in {"ab", "q"} =>
          /\ Hash(obs.pos) = Hash(obs.entry.board)
          /\ obs.side = SideToMove(obs.entry.board)
    /\ \A w \in Workers :
          \/ wk[w].stack = <<>>
          \/ Top(w).fn = "root" /\ Top(w).pc \in {"asp", "flag", "push", "best"}
          => wk[w].localBoard = board
    /\ board = <<>>

C7_Witness ==
    /\ obs.fn = "ab"
    /\ obs.kind = "cutoff"
    /\ obs.pos = obs.entry.board
    /\ \E w \in Workers : At(w, "ab", "reRet")

\* The last write to a table for a hash (0: there is none).
LastWrite(name, hash) ==
    LET idx == {k \in 1..Len(written) :
                   written[k].table = name /\ written[k].hash = hash}
    IN  IF idx = {} THEN 0 ELSE CHOOSE k \in idx : \A j \in idx : j <= k

\* C11: while a call of findBestMove is searching, the mop-up flag is set
\* if and only if one side of the call's root position has only its king,
\* whatever the calls before it were made on.
C11_MopUpIffBareKing ==
    fb.pc \notin {"call", "done"} => (mopUp <=> W.bare)

\* C12: in the negamax version no two threads are at the same time inside
\* a write to the transposition table, the hash-move table, a killer list,
\* the node counter, the root move-score list or the root best eval, move
\* and PV.
C12_WritesExcludeOneAnother ==
    \A v, w \in Workers :
        v # w => ~(inside[v].write /\ inside[w].write)

\* A thread is inside a write while another thread is inside an access.
C12_Witness ==
    \E v, w \in Workers :
        /\ v # w
        /\ inside[v].write
        /\ inside[w] # NoAccess

\* The threads of the parallel for of the negamax version have all finished.
RootLoopFinished ==
    /\ fb.pc = "par"
    /\ fb.next >= Len(fb.moves)
    /\ \A w \in Workers : wk[w].stack = <<>>

\* C13: when all the threads of an iteration have finished (and the root has
\* a move), the best eval of the iteration is the largest of the evals
\* recorded for the root moves, the best move is recorded with exactly that
\* eval, and the root PV begins with the best move.
C13_RootBestIsMax ==
    RootLoopFinished /\ Len(fb.moves) > 0 =>
        /\ \A k \in 1..Len(fb.newMoves) :
               fb.newMoves[k].second <= fb.currentBestEval
        /\ \E k \in 1..Len(fb.newMoves) :
               /\ fb.newMoves[k].move.id = fb.currentBestMove
               /\ fb.newMoves[k].second = fb.currentBestEval
        /\ Len(fb.PV) > 0
        /\ fb.PV[1] = fb.currentBestMove

\* Two threads recorded the root moves out of order, with different evals,
\* and the move recorded last is the best.
C13_Witness ==
    /\ RootLoopFinished
    /\ arg.numThreads = MaxThreads
    /\ Len(fb.newMoves) = 2
    /\ fb.newMoves[1].move.id = fb.moves[2].move.id
    /\ fb.newMoves[1].second < fb.newMoves[2].second
    /\ fb.currentBestMove = fb.newMoves[2].move.id

\* C14: the moves in the killer list of a slot are pairwise distinct, and a
\* move that a beta cutoff puts into a killer list is not a capture.
C14_KillersDistinctQuiet ==
    /\ [](\A d \in DOMAIN killerMoves :
            \A i, j \in 1..Len(killerMoves[d]) :
                i # j => killerMoves[d][i] # killerMoves[d][j])
    /\ [][\A w \in Workers :
            killerMoves' # killerMoves /\ wk'[w] # wk[w]
                => ~Top(w).move.cap]_vars

\* C15: every go command makes the protocol layer print exactly one line,
\* "bestmove 0000" when findBestMove returned the null move and otherwise
\* "bestmove" followed by the returned move in coordinate notation; a line
\* whose command is not one of uci, isready, ucinewgame, position, go and
\* quit changes neither the board nor the reading of input and prints
\* nothing.
C15_OneBestmovePerGo ==
    [][LET line == uci'.line
           shown == IF uci'.bestMove = NoMove THEN <<"0", "0", "0", "0">>
                    ELSE IF uci'.bestMove = 64 * 12 + 28
                    THEN <<"e", "2", "e", "4">>
                    ELSE <<"g", "8", "f", "6">>
       IN  /\ line.word = <<"g", "o">> =>
                  uci'.out = Append(uci.out,
                                    [text |-> "bestmove", move |-> shown])
           /\ line.word \notin {<<"u", "c", "i">>,
                                 <<"i", "s", "r", "e", "a", "d", "y">>,
                                 <<"u", "c", "i", "n", "e", "w", "g", "a",
                                   "m", "e">>,
                                 <<"p", "o", "s", "i", "t", "i", "o", "n">>,
                                 <<"g", "o">>, <<"q", "u", "i", "t">>} =>
                  /\ uci'.out = uci.out
                  /\ uci'.board = uci.board
                  /\ uci'.reading = uci.reading]_uci

\* C16: when alphaBeta returns a transposition-table score instead of
\* searching, the entry was written by a search of at least the requested
\* depth and its score is a lower bound or exact for the window of the call
\* that wrote it: it exceeded that call's alpha.  A score that did not
\* exceed the writer's alpha (an upper bound only) is never returned.
C16_HitIsDeepLowerBound ==
    [][\A w \in Workers : AB_TTHit(w) =>
          LET e == transpositionTable[Hash(wk[w].localBoard)]
          IN  /\ e.depth >= Top(w).depth
              /\ wk'[w].ret.val = e.eval
              /\ e.bound # "upper"]_vars

\* C17: a call of alphaBeta that gets past the game-over test, the table
\* probe and the leaf test with depth < 3, the side to move not in check,
\* mopUp clear, not in the end-game phase, alpha < INF/4 and
\* standPat - 130 * depth > beta returns standPat - 130 * depth at once,
\* without searching a move.
C17_FutilityReturns ==
    [][\A w \in Workers :
          LET f == Top(w)
              b == wk[w].localBoard
              standPat == Color(b) * Evaluate(b)
          IN  /\ AB_Node(w)
              /\ f.depth < 3
              /\ ~InCheck(b)
              /\ ~mopUp
              /\ ~GamePhaseLow(b)
              /\ f.alpha < INF \div 4
              /\ standPat - 130 * f.depth > f.beta
              => /\ wk'[w].stack = Front(wk[w].stack)
                 /\ wk'[w].ret.val = standPat - 130 * f.depth]_vars

\* C18: a call of quiescence on a position whose side-relative static
\* score is >= the beta it was called with returns beta, whatever its depth
\* argument is (depth <= 0 included).
C18_StandPatFailsHigh ==
    obs.fn = "q" /\ Color(obs.pos) * Evaluate(obs.pos) >= obs.entry.beta
        => obs.val = obs.entry.beta

\* C19: a call of alphaBeta with depth = 0 on a position that is not
\* game-over returns exactly what quiescence returns for that position, the
\* quiescence depth of the search and the window of the call, whatever the
\* transposition table holds.
C19_DepthZeroIsQuiescence ==
    /\ obs.fn = "ab"
    /\ obs.entry.depth = 0
    /\ obs.entry.alpha < obs.entry.beta
    /\ IsGameOver(obs.pos) = "NONE"
    => obs.val = QuiescenceValue(obs.pos, arg.quiescenceDepth,
                                 obs.entry.alpha, obs.entry.beta)

\* C20: the aspiration loop of a root move starts with both margins at 50;
\* after a fail-low (eval <= aspiration - windowLeft) it doubles windowLeft
\* and leaves windowRight alone, after a fail-high
\* (eval >= aspiration + windowRight) it doubles windowRight and leaves
\* windowLeft alone, and it is left only with
\* aspiration - windowLeft < eval < aspiration + windowRight for the margins
\* of the search just made.
C20_AspirationLoop ==
    [][\A w \in Workers :
          /\ W_Take(w) => /\ Top(w)'.windowLeft = 50
                          /\ Top(w)'.windowRight = 50
          /\ W_AspRet(w) =>
                LET f == Top(w)
                    g == Top(w)'
                    eval == -wk[w].ret.val
                    low == f.aspiration - f.windowLeft
                    high == f.aspiration + f.windowRight
                IN  /\ g.aspiration = f.aspiration
                    /\ eval <= low =>
                          /\ g.pc = "asp"
                          /\ g.windowLeft = 2 * f.windowLeft
                          /\ g.windowRight = f.windowRight
                    /\ eval >= high =>
                          /\ g.pc = "asp"
                          /\ g.windowLeft = f.windowLeft
                          /\ g.windowRight = 2 * f.windowRight
                    /\ g.pc # "asp" =>
                          /\ low < eval /\ eval < high
                          /\ g.eval = eval
                          /\ g.windowLeft = f.windowLeft
                          /\ g.windowRight = f.windowRight]_vars

\* The loop of a root move is left after one of its margins was doubled at
\* least twice and the other not at all.
C20_Witness ==
    \E w \in Workers :
        /\ At(w, "root", "flag")
        /\ \/ /\ Top(w).windowLeft >= 4 * InitialWindow
              /\ Top(w).windowRight = InitialWindow
           \/ /\ Top(w).windowRight >= 4 * InitialWindow
              /\ Top(w).windowLeft = InitialWindow

\* C21: in the root loop the extension rule is applied once per root move
\* per iteration: whatever the number of aspiration re-searches, the depth
\* the move is searched to is at most one ply above its late-move-reduced
\* depth and the worker's extension budget is at most one below its initial
\* value.
C21_RootExtendsOnce ==
    \A w \in Workers :
        wk[w].stack # <<>> /\ wk[w].stack[1].fn = "root" =>
            LET f == wk[w].stack[1]
            IN  /\ f.nextDepth <=
                       lateMoveReduction(board, f.move, f.i, f.depth, TRUE) + 1
                /\ f.extension >= InitialExtension - 1

\* The plies the extension rule has added for the move that frame k of
\* worker w is searching (0 for a frame that is not searching a move).
PliesAdded(w, k) ==
    LET f == wk[w].stack[k]
    IN  IF f.fn = "root" /\ f.pc = "aspRet"
        THEN f.nextDepth
                 - lateMoveReduction(board, f.move, f.i, f.depth, TRUE)
        ELSE IF f.fn = "ab" /\ f.pc \in {"moveRet", "reRet"}
        THEN f.nextDepth - lateMoveReduction(f.entry.board, f.move, f.i,
                                             f.depth, f.isPV)
        ELSE 0

\* C22: the extension budget handed down the calls of alphaBeta is never
\* negative; for each move it is decremented by exactly one when the
\* extension rule adds plies for the move and is otherwise left as it was;
\* and along every path from a root move to a leaf the plies added by
\* extensions sum to at most the initial budget of 4.
C22_ExtensionBudget ==
    /\ [](\A w \in Workers :
            LET RECURSIVE Sum(_)
                Sum(k) == IF k = 0 THEN 0 ELSE PliesAdded(w, k) + Sum(k - 1)
            IN  /\ \A k \in 1..Len(wk[w].stack) :
                      /\ wk[w].stack[k].extension >= 0
                      /\ wk[w].stack[k].entry.extension >= 0
                /\ Sum(Len(wk[w].stack)) <= InitialExtension)
    /\ [][\A w \in Workers :
            /\ AB_MoveCall(w) =>
                  LET added == PliesAdded(w, Len(wk[w].stack) - 1)'
                  IN  /\ added \in {0, 1}
                      /\ Top(w)'.entry.extension = Top(w).extension - added
            /\ W_AspCall(w) =>
                  LET added == PliesAdded(w, 1)'
                  IN  /\ added \in {0, 1}
                      /\ Top(w)'.entry.extension = InitialExtension - added]_vars

\* C23: in alphaBeta, a move that is the only legal move of its position is
\* searched one ply deeper than its reduced depth and costs one unit of the
\* extension budget whenever the budget is positive, whether or not the
\* move is a check, a mate threat or a promotion threat.
C23_SoleReplyExtends ==
    [][\A w \in Workers :
          AB_MoveCall(w) /\ Len(Top(w).moves) = 1 /\ Top(w).extension > 0 =>
              LET f == Top(w)
                  g == wk[w].stack[Len(wk[w].stack) - 1]'
              IN  /\ g.nextDepth =
                         lateMoveReduction(wk[w].localBoard, g.move, f.i,
                                           f.depth, f.isPV) + 1
                  /\ g.extension = f.extension - 1]_vars

\* The priority table of the move ordering, read from the top: the first
\* category that applies to the move decides.
PriorityTable(b, move, depth, leftMost) ==
    LET ply == globalMaxDepth - depth
    IN  IF leftMost /\ ply >= 0 /\ Len(previousPV) > ply
           /\ previousPV[ply + 1] = move.id
        THEN 10000
        ELSE IF Hash(b) \in DOMAIN hashMoveTable
                /\ hashMoveTable[Hash(b)] = move.id
        THEN 9000
        ELSE IF isQueenPromotion(move) THEN 6000
        ELSE IF move.cap
        THEN 4000 + PieceValue(move.vic) - PieceValue(move.att)
        ELSE IF InCheck(MakeMove(b, move)) THEN 3000
        ELSE IF \E k \in 1..Len(KillersAt(depth)) :
                    KillersAt(depth)[k] = move.id
        THEN 2000
        ELSE 0

\* C24: when alphaBeta orders the moves of its position, every move gets
\* the priority of the highest category of the priority table that applies
\* to it (previous PV move in a leftmost node, hash move, queen promotion,
\* capture, check, killer, quiet), also in leftmost nodes with a PV hint
\* and for killer moves that are captures or promotions.
C24_HighestCategory ==
    [][\A w \in Workers :
          /\ wk[w].stack # <<>>
          /\ Len(wk[w].stack') = Len(wk[w].stack)
          /\ Top(w).pc \notin {"loop", "moveRet", "reRet"}
          /\ Top(w)'.fn = "ab" /\ Top(w)'.pc = "loop"
          => \A k \in 1..Len(Top(w)'.moves) :
                 Top(w)'.moves[k].second =
                     PriorityTable(wk[w].localBoard', Top(w)'.moves[k].move,
                                   Top(w)'.depth, Top(w)'.leftMost)]_vars

\* C25: the list alphaBeta gets from orderedMoves holds every legal move
\* of the position exactly once and nothing else; every move of a tactical
\* category (PV, hash, promotion, capture, check, killer) stands before
\* every quiet move, and the tactical moves stand in non-increasing
\* priority.
C25_OrderedMoves ==
    [][\A w \in Workers :
          /\ wk[w].stack # <<>>
          /\ Len(wk[w].stack') = Len(wk[w].stack)
          /\ Top(w).pc \notin {"loop", "moveRet", "reRet"}
          /\ Top(w)'.fn = "ab" /\ Top(w)'.pc = "loop"
          => LET f == Top(w)'
                 b == wk[w].localBoard'
                 legal == LegalMoves(b)
                 tactical(k) == PriorityTable(b, f.moves[k].move, f.depth,
                                              f.leftMost) > 0
             IN  /\ Len(f.moves) = Len(legal)
                 /\ \A n \in 1..Len(legal) :
                        Cardinality({k \in 1..Len(f.moves) :
                                        f.moves[k].move = legal[n]}) = 1
                 /\ \A j, k \in 1..Len(f.moves) :
                        j < k =>
                            /\ tactical(k) => tactical(j)
                            /\ tactical(j) /\ tactical(k) =>
                                   f.moves[j].second >= f.moves[k].second]_vars

\* C26: after a completed iteration below maxDepth that did not end in the
\* single-move return, the driver leaves the loop exactly when the time
\* limit is exceeded and the score is stable or the depth is above
\* ENGINE_DEPTH; stable: no two successive scores among those of the last
\* four completed iterations differ by more than StableMargin.  (Stated
\* for the iterations that have four completed iterations to look at.)
C26_TimeCheck ==
    [][FB_IterEnd /\ fb'.pc # "done" /\ fb.depth < arg.maxDepth
          /\ fb.depth >= baseDepth + 3 =>
          LET d == fb.depth
              stable == \A k \in (d - 2)..d :
                            Abs(fb'.evals[k] - fb'.evals[k - 1])
                                <= StableMargin
          IN  fb'.pc = "exit" <=>
                  clock' >= 1 /\ (stable \/ d > ENGINE_DEPTH)]_vars

\* C27: at the end of every iteration, whatever the interleaving of the
\* root workers, the move list kept for the next iteration holds each
\* legal root move exactly once, each with the score a worker recorded for
\* it in the iteration just finished, in non-increasing order of score.
C27_MoveListKept ==
    [][FB_IterEnd =>
          LET legal == LegalMoves(board)
              moves == fb'.moves
          IN  /\ Len(moves) = Len(legal)
              /\ \A n \in 1..Len(legal) :
                     Cardinality({k \in 1..Len(moves) :
                                     moves[k].move = legal[n]}) = 1
              /\ \A k \in 1..Len(moves) :
                     \E n \in 1..Len(fb.newMoves) : fb.newMoves[n] = moves[k]
              /\ \A j, k \in 1..Len(moves) :
                     j < k => moves[j].second >= moves[k].second]_vars

\* The end of an iteration on MaxThreads threads in which the scores arrived
\* in increasing order and were sorted.
C27_Witness ==
    /\ fb.pc \in {"iter", "exit"}
    /\ arg.numThreads = MaxThreads
    /\ fb.depth >= 2
    /\ Len(fb.newMoves) >= 2
    /\ fb.newMoves[1].second < fb.newMoves[2].second
    /\ fb.moves = <<fb.newMoves[2], fb.newMoves[1]>>

\* C28: in the versions with history tables no increment of a history cell
\* is lost: the write that follows a cutoff by a non-capture leaves the cell
\* at the value it had just before the write plus the increment
\* (depth * depth + depth - 1 in search.cpp, depth * depth in the earlier
\* version) and leaves the other cells alone, whatever the other workers
\* did in between; no other step of a search changes a history table.
C28_IncrementsKept ==
    [][\A w \in Workers :
          /\ BT_History(w) =>
                LET f == Top(w)
                    inc == IF Version = "cpp"
                           THEN f.depth * f.depth + f.depth - 1
                           ELSE f.depth * f.depth
                    Plus(old, new) ==
                        /\ HistoryAt(new, f.move) = HistoryAt(old, f.move) + inc
                        /\ \A k \in DOMAIN old \ {f.move.id} :
                               k \in DOMAIN new /\ new[k] = old[k]
                IN  IF WhiteTurn(wk[w].localBoard)
                    THEN Plus(whiteHistory, whiteHistory')
                         /\ blackHistory' = blackHistory
                    ELSE Plus(blackHistory, blackHistory')
                         /\ whiteHistory' = whiteHistory
          /\ wk[w].stack # wk[w].stack' /\ ~BT_History(w) =>
                UNCHANGED <<whiteHistory, blackHistory>>]_vars

\* C29: in the negamax version no thread is inside a read of the hash-move
\* table or of a killer list made by the move ordering while another thread
\* is inside a write to the same container.
C29_OrderingReadsSerialized ==
    \A v, w \in Workers :
        v # w /\ inside[v].site \in {"orderedMoves: hashMoveTable",
                                     "orderedMoves: killerMoves"}
            => ~(inside[w].write /\ inside[w].data \cap inside[v].data # {})

\* C30: in the negamax driver every index used on evals / candidateMove lies
\* in 0..ENGINE_DEPTH, and every element of evals that is read (by the
\* aspiration seeding when a root move is taken, by the stability check at
\* the end of an iteration, which reads pair after pair until one differs
\* by more than StableMargin) was written by an earlier completed iteration
\* of this call.
C30_EvalsAccess ==
    [][/\ FB_IterEnd /\ fb'.pc # "done" =>
             LET d == fb.depth
                 Within(j) == Abs(fb'.evals[d - j] - fb'.evals[d - j - 1])
                                  <= StableMargin
                 reads == IF d >= 4 /\ d <= ENGINE_DEPTH
                          THEN UNION {{d - i, d - i - 1} :
                                   i \in {n \in 0..3 :
                                             \A j \in 0..(n - 1) : Within(j)}}
                          ELSE {}
             IN  /\ d \in 0..ENGINE_DEPTH
                 /\ reads \subseteq 0..ENGINE_DEPTH
                 /\ reads \subseteq DOMAIN fb'.evals
       /\ \A w \in Workers :
             W_Take(w) /\ fb.depth # 1 =>
                 /\ fb.depth - 1 \in 0..ENGINE_DEPTH
                 /\ fb.depth - 1 \in DOMAIN fb.evals]_vars

\* C8: once the entry for hash h was last written as (s, d), a lookup of h
\* at depth d' is a hit with value s exactly when d' <= d and a miss
\* otherwise, whatever was stored for h before that write; a hash never
\* written is a miss.
C8_LookUpSeesLastWrite ==
    probe.table # "none" =>
        LET k == LastWrite(probe.table, probe.hash)
        IN  IF k = 0 THEN ~probe.found
            ELSE /\ probe.found <=> probe.depth <= written[k].depth
                 /\ probe.found => probe.eval = written[k].eval

C8_Witness ==
    /\ probe.found
    /\ LET k == LastWrite(probe.table, probe.hash)
       IN  /\ probe.depth = written[k].depth
           /\ \E j \in 1..(k - 1) :
                 /\ written[j].table = probe.table
                 /\ written[j].hash = probe.hash
                 /\ written[j].depth > written[k].depth
                 /\ written[j].eval # probe.eval

IsCpp == "version" \in DOMAIN arg /\ arg.version = "cpp"

\* C9: every entry written to a transposition table has a stored depth
\* >= 0: in the table of the negamax version, and in the lower- and
\* upper-bound tables of search.cpp, whatever depth, move index and number
\* of legal moves the search reaches.
C9_StoredDepthNonNegative ==
    /\ \A h \in DOMAIN transpositionTable : transpositionTable[h].depth >= 0
    /\ IsCpp => /\ \A h \in DOMAIN lowerBoundTable :
                      lowerBoundTable[h].depth >= 0
                /\ \A h \in DOMAIN upperBoundTable :
                      upperBoundTable[h].depth >= 0

\* C10: the transposition table never holds more than maxTableSize entries.
C10_TableBounded == TableSize <= maxTableSize

====
